---- MODULE Spec2Model ----
(***************************************************************************)
(* Background preview rendering pipeline of lite-room                      *)
(* (crates/adapters/src/preview/mod.rs): the facade operations             *)
(* submit_preview / try_receive_preview / metrics running on the caller's  *)
(* thread, the worker loop of spawn_worker running on its own thread, the  *)
(* two mpsc channels between them, the atomic sequence counters and the    *)
(* mutex-protected MetricsState.  Each atomic load/store and each channel   *)
(* operation of the source is a step of its own, so that the interleavings *)
(* of the two threads are explored; a counter update under the metrics     *)
(* lock that directly follows the operation deciding it (mark_canceled     *)
(* after a try_recv, a comparison or a failed render) is taken with it.    *)
(*                                                                         *)
(* Spec is the pipeline; LiveSpec and TeardownSpec add fairness of the     *)
(* threads; PoisonSpec adds a panic inside a metrics lock region;          *)
(* ServiceSpec puts ApplicationService::submit_preview and its parameter   *)
(* validation in front of the facade; and WindowSpec, PercentileSpec,      *)
(* RenderTargetSpec, WordSpec, RenderSpec and ToneSpec evaluate            *)
(* push_render_sample, percentile_95, render_target, render and the tone   *)
(* transform on inputs drawn by their initial predicates.  WarmSpec is the *)
(* pipeline after a number of served jobs; RaceSpec adds a second thread   *)
(* calling submit_preview; ShapeSpec and ResampleSpec evaluate the shape   *)
(* of a rendered frame and the resample of decode_source_pixels; and       *)
(* AutosaveSpec and EditorSpec are DebouncedAutosave and the editor loop   *)
(* of launch_window (crates/drivers/src/ui.rs).                            *)
(***************************************************************************)
EXTENDS Integers, Sequences, FiniteSets, TLC

\* ---------------------------------------------------------------- bounds
MaxSubmits == 3
MaxElapsed == 1

\* ------------------------------------------------------- program constants
METRIC_WINDOW_SIZE == 64
MAX_RENDER_PIXELS == 2000000

\* ------------------------------------------------------------------ state
VARIABLES
    renderer,          \* "gpu" | "cpu", chosen once in BackgroundPreviewPipeline::new
    lock_holder,       \* who holds the metrics mutex and the result_rx mutex, and
                       \* whether the metrics mutex is poisoned
    next_sequence,     \* AtomicU64
    latest_sequence,   \* Arc<AtomicU64>
    job_channel,       \* mpsc channel submit_tx -> submit_rx (ScheduledJob)
    result_channel,    \* mpsc channel result_tx -> result_rx (PreviewFrame)
    metrics,           \* Arc<Mutex<MetricsState>>
    caller_pc,         \* position of the caller's thread inside the facade
    request,           \* submit_preview: the argument
    sequence,          \* submit_preview: the local `sequence`
    newest,            \* try_receive_preview: the local `newest`
    dropped,           \* try_receive_preview: the local `dropped`
    ret,               \* what the last facade call returned
    worker_pc,         \* position of the worker thread inside its loop
    job,               \* worker: the local `job`
    elapsed,           \* worker: the local `elapsed`
    hist,              \* history of observable events (never read by the program)
    input,             \* argument of the function under evaluation (None in the pipeline)
    output             \* what that function returned (None until it is applied)

vars == <<renderer, lock_holder, next_sequence, latest_sequence, job_channel, result_channel,
          metrics, caller_pc, request, sequence, newest, dropped, ret,
          worker_pc, job, elapsed, hist, input, output>>

caller_vars == <<caller_pc, request, sequence, newest, dropped, ret>>
worker_vars == <<worker_pc, job, elapsed>>

\* ------------------------------------------------------------------ values
None == <<>>
Some(x) == <<x>>

\* The requests of the two tests of preview/mod.rs: 1200x800 and 0x512.
PreviewRequests ==
    { [image_id |-> 1, source_path |-> "preview.jpg", target_width |-> 1200, target_height |-> 800],
      [image_id |-> 2, source_path |-> "ignored.jpg", target_width |-> 0,    target_height |-> 512] }

NoRequest == [image_id |-> 0, source_path |-> "", target_width |-> 0, target_height |-> 0]
NoJob == [sequence |-> 0, request |-> NoRequest]
NoFrame == [image_id |-> 0, sequence |-> 0, render_time_ms |-> 0]

Elapsed == 0..MaxElapsed

\* ---------------------------------------------------------------- metrics
MetricsDefault ==
    [submitted_jobs |-> 0, completed_jobs |-> 0, canceled_jobs |-> 0,
     dropped_frames |-> 0, last_render_time_ms |-> None, render_samples_ms |-> <<>>]

\* sort_unstable on a copy: the samples in ascending order.  Position i holds
\* the value with fewer than i samples below it and at least i samples at or
\* below it.
SortAsc(s) ==
    [i \in 1..Len(s) |->
        CHOOSE x \in {s[j] : j \in 1..Len(s)} :
            /\ Cardinality({j \in 1..Len(s) : s[j] < x}) < i
            /\ Cardinality({j \in 1..Len(s) : s[j] <= x}) >= i]

\* Mutant: the rank is truncated (as usize) instead of rounded.
percentile_95_Truncates(samples) ==
    IF samples = <<>> THEN None
    ELSE LET sorted == SortAsc(samples)
             index  == ((Len(sorted) - 1) * 95) \div 100
         IN  IF index + 1 <= Len(sorted) THEN Some(sorted[index + 1]) ELSE None

\* (n - 1) as f64 * 0.95 is computed in binary floating point and rounded half
\* away from zero; for every n up to the window size the result is the
\* integer ((n - 1) * 95 + 50) \div 100 (the products with a fractional part of
\* one half, n = 11, 31, 51, are exactly representable and round up).
percentile_95(samples) ==
    IF samples = <<>> THEN None
    ELSE LET sorted == SortAsc(samples)
             index  == ((Len(sorted) - 1) * 95 + 50) \div 100
         IN  IF index + 1 <= Len(sorted) THEN Some(sorted[index + 1]) ELSE None

snapshot(m) ==
    [submitted_jobs |-> m.submitted_jobs, completed_jobs |-> m.completed_jobs,
     canceled_jobs |-> m.canceled_jobs, dropped_frames |-> m.dropped_frames,
     last_render_time_ms |-> m.last_render_time_ms,
     p95_render_time_ms |-> percentile_95(m.render_samples_ms)]

\* Mutant: a full window drops the sample just pushed instead of the oldest.
push_render_sample_EvictsNewest(m, sample_ms) ==
    LET pushed == Append(m.render_samples_ms, sample_ms)
    IN  [m EXCEPT !.last_render_time_ms = Some(sample_ms),
                  !.render_samples_ms =
                      IF Len(pushed) > METRIC_WINDOW_SIZE
                      THEN SubSeq(pushed, 1, METRIC_WINDOW_SIZE)
                      ELSE pushed]

\* Mutant: the window is never drained.
push_render_sample_Unbounded(m, sample_ms) ==
    [m EXCEPT !.last_render_time_ms = Some(sample_ms),
              !.render_samples_ms = Append(m.render_samples_ms, sample_ms)]

push_render_sample(m, sample_ms) ==
    LET pushed == Append(m.render_samples_ms, sample_ms)
        drain_count == Len(pushed) - METRIC_WINDOW_SIZE
    IN  [m EXCEPT !.last_render_time_ms = Some(sample_ms),
                  !.render_samples_ms =
                      IF Len(pushed) > METRIC_WINDOW_SIZE
                      THEN SubSeq(pushed, drain_count + 1, Len(pushed))
                      ELSE pushed]

\* --------------------------------------------------------------- channels
\* submit_rx and result_tx exist until the worker thread ends
WorkerAlive == worker_pc \notin {"exited", "panicked"}
\* submit_tx and result_rx exist until the facade is dropped
FacadeAlive == caller_pc # "dropped"

\* Mutex::lock blocks until the mutex is free.  A lock region that only
\* updates or copies MetricsState is one step (it acquires and releases
\* within the step); the result_rx guard of try_receive_preview is held from
\* its first try_recv until it returns.
MetricsLockFree == lock_holder.metrics = "none"
ResultLockFree == lock_holder.result_rx = "none"
\* Mutex::lock returns Err once a thread has panicked while holding the guard
MetricsPoisoned == lock_holder.metrics_poisoned

\* Mutant: a canceled job is taken back out of the submitted count.
mark_canceled_UncountsSubmitted(m, count) ==
    IF MetricsPoisoned THEN m
    ELSE [m EXCEPT !.canceled_jobs = @ + count, !.submitted_jobs = @ - count]

\* if let Ok(mut m) = metrics.lock() { m.canceled_jobs += count; }
mark_canceled(m, count) ==
    IF MetricsPoisoned THEN m ELSE [m EXCEPT !.canceled_jobs = @ + count]

\* mpsc::Receiver::try_recv / recv on a non-empty buffer: FIFO
Recv(chan) == [item |-> Head(chan), rest |-> Tail(chan)]

\* mpsc::Sender::send
Send(chan, item) == Append(chan, item)

\* --------------------------------------------------------------- renderers
\* What renderer.render(request) can do: zero dimensions are rejected first;
\* otherwise the source file is opened and decoded when the render runs, which
\* fails with a Decode error if it is unreadable by then; the GPU path can also
\* fail the readback with an Io error, and wgpu panics on an uncaptured device
\* error.
RenderOutcomes(r, req) ==
    IF req.target_width = 0 \/ req.target_height = 0 THEN {"InvalidInput"}
    ELSE IF r = "gpu" THEN {"Ok", "Decode", "Io", "panic"}
    ELSE {"Ok", "Decode"}

\* ------------------------------------------------------------------- Init
HistInit ==
    [arg |-> NoRequest,      \* the request passed to the last submit_preview call
     published |-> <<>>,     \* sequence numbers sent on the result channel
     delivered |-> <<>>,     \* sequence numbers returned by non-None polls
     submits_done |-> 0,     \* submit_preview calls that returned Ok
     first_render_at |-> -1, \* submits_done when the first render finished
     first_check_at |-> -1,  \* submits_done at the first post-render check
     render_failed |-> {},   \* sequences whose render returned Err
     poll_k |-> 0,           \* frames in the result channel when the poll started
     poll_sent |-> 0,        \* frames sent while the poll was draining
     entered_poisoned |-> FALSE, \* the metrics mutex was poisoned when the last
                             \* facade call started
     buffered |-> {},        \* sequences in the job channel when the facade was dropped
     buffered_renders |-> 0, \* renders the worker started for one of them
     wake_taken |-> 0,       \* jobs received since the last blocking receive returned
     wake_canceled |-> 0,    \* canceled_jobs when the last blocking receive returned
     wake_renders |-> 0,     \* renderer.render calls since the last blocking receive returned
     lost |-> 0]             \* frames taken by polls that returned the metrics-lock error

PipelineInit ==
    /\ renderer \in {"gpu", "cpu"}
    /\ lock_holder = [metrics |-> "none", result_rx |-> "none", metrics_poisoned |-> FALSE]
    /\ next_sequence = 0
    /\ latest_sequence = 0
    /\ job_channel = <<>>
    /\ result_channel = <<>>
    /\ metrics = MetricsDefault
    /\ caller_pc = "idle"
    /\ request = NoRequest
    /\ sequence = 0
    /\ newest = NoFrame
    /\ dropped = 0
    /\ ret = [op |-> "new", kind |-> "Ok", frame |-> None, snap |-> None]
    /\ worker_pc = "recv"
    /\ job = NoJob
    /\ elapsed = 0
    /\ hist = HistInit

Init == PipelineInit /\ input = None /\ output = None

\* the pipeline's own state, left alone while a function is evaluated
pipeline_vars == <<renderer, lock_holder, next_sequence, latest_sequence, job_channel,
                   result_channel, metrics, caller_vars, worker_vars, hist>>

\* --------------------------------------------------- facade: submit_preview
Ret(op, kind, frame, snap) == [op |-> op, kind |-> kind, frame |-> frame, snap |-> snap]

\* Mutant: the sequence is the value fetch_add returns, without the + 1.
SubmitFetchAdd_NoPlusOne ==
    /\ caller_pc = "idle"
    /\ next_sequence < MaxSubmits
    /\ \E req \in PreviewRequests :
          /\ request' = req
          /\ hist' = [hist EXCEPT !.arg = req]
    /\ sequence' = next_sequence
    /\ next_sequence' = next_sequence + 1
    /\ caller_pc' = "submit_store"
    /\ UNCHANGED <<renderer, input, output, lock_holder, latest_sequence, job_channel, result_channel, metrics,
                   newest, dropped, ret, worker_vars>>

\* let sequence = self.next_sequence.fetch_add(1, SeqCst) + 1;
SubmitFetchAdd ==
    /\ caller_pc = "idle"
    /\ next_sequence < MaxSubmits
    /\ \E req \in PreviewRequests :
          /\ request' = req
          /\ hist' = [hist EXCEPT !.arg = req, !.entered_poisoned = MetricsPoisoned]
    /\ sequence' = next_sequence + 1
    /\ next_sequence' = next_sequence + 1
    /\ caller_pc' = "submit_store"
    /\ UNCHANGED <<renderer, input, output, lock_holder, latest_sequence, job_channel, result_channel, metrics,
                   newest, dropped, ret, worker_vars>>

\* Mutant: the store of latest_sequence is left out.
SubmitStoreLatest_NoStore ==
    /\ caller_pc = "submit_store"
    /\ caller_pc' = "submit_count"
    /\ UNCHANGED <<renderer, input, output, lock_holder, next_sequence, latest_sequence, job_channel, result_channel,
                   metrics, request, sequence, newest, dropped, ret, worker_vars, hist>>

\* self.latest_sequence.store(sequence, SeqCst);
SubmitStoreLatest ==
    /\ caller_pc = "submit_store"
    /\ latest_sequence' = sequence
    /\ caller_pc' = "submit_count"
    /\ UNCHANGED <<renderer, input, output, lock_holder, next_sequence, job_channel, result_channel, metrics,
                   request, sequence, newest, dropped, ret, worker_vars, hist>>

\* Mutant: a poisoned lock is skipped (if let Ok(..)) instead of returned with `?`.
SubmitCount_IgnoresPoison ==
    /\ caller_pc = "submit_count"
    /\ MetricsLockFree
    /\ metrics' = IF MetricsPoisoned THEN metrics
                  ELSE [metrics EXCEPT !.submitted_jobs = @ + 1]
    /\ caller_pc' = "submit_send"
    /\ UNCHANGED <<renderer, input, output, lock_holder, next_sequence, latest_sequence, job_channel, result_channel,
                   request, sequence, newest, dropped, ret, worker_vars, hist>>

\* { let mut metrics = self.metrics.lock()?; metrics.submitted_jobs += 1; }
SubmitCount ==
    /\ caller_pc = "submit_count"
    /\ MetricsLockFree
    /\ IF MetricsPoisoned
       THEN /\ ret' = Ret("submit_preview", "Err", None, None)
            /\ caller_pc' = "idle"
            /\ UNCHANGED metrics
       ELSE /\ metrics' = [metrics EXCEPT !.submitted_jobs = @ + 1]
            /\ caller_pc' = "submit_send"
            /\ UNCHANGED ret
    /\ UNCHANGED <<renderer, input, output, lock_holder, next_sequence, latest_sequence, job_channel, result_channel,
                   request, sequence, newest, dropped, worker_vars, hist>>

\* Mutant: the job channel is a bounded one of capacity 1 written with
\* try_send, which fails while the worker has not yet taken the previous job.
SubmitSend_BoundedTrySend ==
    /\ caller_pc = "submit_send"
    /\ IF WorkerAlive /\ job_channel = <<>>
       THEN /\ job_channel' = Send(job_channel, [sequence |-> sequence, request |-> request])
            /\ ret' = Ret("submit_preview", "Ok", None, None)
            /\ hist' = [hist EXCEPT !.submits_done = @ + 1]
       ELSE /\ ret' = Ret("submit_preview", "Err", None, None)
            /\ UNCHANGED <<job_channel, hist>>
    /\ caller_pc' = "idle"
    /\ UNCHANGED <<renderer, input, output, lock_holder, next_sequence, latest_sequence, result_channel, metrics,
                   request, sequence, newest, dropped, worker_vars>>

\* self.submit_tx.send(ScheduledJob { sequence, request }).map_err(..)
SubmitSend ==
    /\ caller_pc = "submit_send"
    /\ IF WorkerAlive
       THEN /\ job_channel' = Send(job_channel, [sequence |-> sequence, request |-> request])
            /\ ret' = Ret("submit_preview", "Ok", None, None)
            /\ hist' = [hist EXCEPT !.submits_done = @ + 1]
       ELSE /\ ret' = Ret("submit_preview", "Err", None, None)
            /\ UNCHANGED <<job_channel, hist>>
    /\ caller_pc' = "idle"
    /\ UNCHANGED <<renderer, input, output, lock_holder, next_sequence, latest_sequence, result_channel, metrics,
                   request, sequence, newest, dropped, worker_vars>>

\* ---------------------------------------------- facade: try_receive_preview
\* Mutant: the newest frame is picked out of the channel and returned without
\* draining the older ones.
PollFirst_PopNewestOnly ==
    /\ caller_pc = "idle"
    /\ ResultLockFree
    /\ IF result_channel # <<>>
       THEN /\ newest' = result_channel[Len(result_channel)]
            /\ result_channel' = SubSeq(result_channel, 1, Len(result_channel) - 1)
            /\ dropped' = 0
            /\ caller_pc' = "poll_finish"
            /\ hist' = [hist EXCEPT !.poll_k = Len(result_channel), !.poll_sent = 0]
            /\ lock_holder' = [lock_holder EXCEPT !.result_rx = "caller"]
            /\ UNCHANGED ret
       ELSE /\ ret' = IF WorkerAlive
                      THEN Ret("try_receive_preview", "Ok", None, None)
                      ELSE Ret("try_receive_preview", "Err", None, None)
            /\ UNCHANGED <<result_channel, newest, dropped, caller_pc, hist, lock_holder>>
    /\ UNCHANGED <<renderer, input, output, next_sequence, latest_sequence, job_channel, metrics,
                   request, sequence, worker_vars>>

\* Mutant: TryRecvError::Empty is handled like Disconnected.
PollFirst_EmptyIsError ==
    /\ caller_pc = "idle"
    /\ ResultLockFree
    /\ IF result_channel # <<>>
       THEN /\ newest' = Recv(result_channel).item
            /\ result_channel' = Recv(result_channel).rest
            /\ dropped' = 0
            /\ caller_pc' = "poll_drain"
            /\ hist' = [hist EXCEPT !.poll_k = Len(result_channel), !.poll_sent = 0]
            /\ lock_holder' = [lock_holder EXCEPT !.result_rx = "caller"]
            /\ UNCHANGED ret
       ELSE /\ ret' = Ret("try_receive_preview", "Err", None, None)
            /\ UNCHANGED <<result_channel, newest, dropped, caller_pc, hist, lock_holder>>
    /\ UNCHANGED <<renderer, input, output, next_sequence, latest_sequence, job_channel, metrics,
                   request, sequence, worker_vars>>

\* Mutant: a disconnected result channel is reported like an empty one.
PollFirst_DisconnectedIsNone ==
    /\ caller_pc = "idle"
    /\ ResultLockFree
    /\ IF result_channel # <<>>
       THEN /\ newest' = Recv(result_channel).item
            /\ result_channel' = Recv(result_channel).rest
            /\ dropped' = 0
            /\ caller_pc' = "poll_drain"
            /\ hist' = [hist EXCEPT !.poll_k = Len(result_channel), !.poll_sent = 0,
                                    !.entered_poisoned = MetricsPoisoned]
            /\ lock_holder' = [lock_holder EXCEPT !.result_rx = "caller"]
            /\ UNCHANGED ret
       ELSE /\ ret' = Ret("try_receive_preview", "Ok", None, None)
            /\ hist' = [hist EXCEPT !.entered_poisoned = MetricsPoisoned]
            /\ UNCHANGED <<result_channel, newest, dropped, caller_pc, lock_holder>>
    /\ UNCHANGED <<renderer, input, output, next_sequence, latest_sequence, job_channel, metrics,
                   request, sequence, worker_vars>>

\* let receiver = self.result_rx.lock()?; let first = match receiver.try_recv() {..}
PollFirst ==
    /\ caller_pc = "idle"
    /\ ResultLockFree
    /\ IF result_channel # <<>>
       THEN /\ newest' = Recv(result_channel).item
            /\ result_channel' = Recv(result_channel).rest
            /\ dropped' = 0
            /\ caller_pc' = "poll_drain"
            /\ hist' = [hist EXCEPT !.poll_k = Len(result_channel), !.poll_sent = 0,
                                    !.entered_poisoned = MetricsPoisoned]
            /\ lock_holder' = [lock_holder EXCEPT !.result_rx = "caller"]
            /\ UNCHANGED ret
       ELSE /\ ret' = IF WorkerAlive
                      THEN Ret("try_receive_preview", "Ok", None, None)
                      ELSE Ret("try_receive_preview", "Err", None, None)
            /\ hist' = [hist EXCEPT !.entered_poisoned = MetricsPoisoned]
            /\ UNCHANGED <<result_channel, newest, dropped, caller_pc, lock_holder>>
    /\ UNCHANGED <<renderer, input, output, next_sequence, latest_sequence, job_channel, metrics,
                   request, sequence, worker_vars>>

\* Mutant: the drain loop replaces newest without counting the frame it drops.
PollDrain_ForgetsCount ==
    /\ caller_pc = "poll_drain"
    /\ IF result_channel # <<>>
       THEN /\ newest' = Recv(result_channel).item
            /\ result_channel' = Recv(result_channel).rest
            /\ dropped' = dropped
            /\ UNCHANGED caller_pc
       ELSE /\ caller_pc' = "poll_finish"
            /\ UNCHANGED <<result_channel, newest, dropped>>
    /\ UNCHANGED <<renderer, input, output, lock_holder, next_sequence, latest_sequence, job_channel, metrics,
                   request, sequence, ret, worker_vars, hist>>

\* while let Ok(next) = receiver.try_recv() { dropped += 1; newest = next; }
PollDrain ==
    /\ caller_pc = "poll_drain"
    /\ IF result_channel # <<>>
       THEN /\ newest' = Recv(result_channel).item
            /\ result_channel' = Recv(result_channel).rest
            /\ dropped' = dropped + 1
            /\ UNCHANGED caller_pc
       ELSE /\ caller_pc' = "poll_finish"
            /\ UNCHANGED <<result_channel, newest, dropped>>
    /\ UNCHANGED <<renderer, input, output, lock_holder, next_sequence, latest_sequence, job_channel, metrics,
                   request, sequence, ret, worker_vars, hist>>

\* Mutant: the returned frame is counted as dropped too.
PollFinish_CountsReturned ==
    /\ caller_pc = "poll_finish"
    /\ dropped > 0 => MetricsLockFree
    /\ metrics' = [metrics EXCEPT !.dropped_frames = @ + dropped + 1]
    /\ ret' = Ret("try_receive_preview", "Ok", Some(newest), None)
    /\ hist' = [hist EXCEPT !.delivered = Append(@, newest.sequence),
                            !.poll_k = 0, !.poll_sent = 0]
    /\ lock_holder' = [lock_holder EXCEPT !.result_rx = "none"]
    /\ caller_pc' = "idle"
    /\ UNCHANGED <<renderer, input, output, next_sequence, latest_sequence, job_channel, result_channel,
                   request, sequence, newest, dropped, worker_vars>>

\* if dropped > 0 { metrics.lock()?.dropped_frames += dropped; }  Ok(Some(newest))
PollFinish ==
    /\ caller_pc = "poll_finish"
    /\ dropped > 0 => MetricsLockFree
    /\ IF dropped > 0 /\ MetricsPoisoned
       THEN /\ ret' = Ret("try_receive_preview", "Err", None, None)
            /\ hist' = [hist EXCEPT !.poll_k = 0, !.poll_sent = 0, !.lost = @ + dropped + 1]
            /\ UNCHANGED metrics
       ELSE /\ metrics' = IF dropped > 0
                          THEN [metrics EXCEPT !.dropped_frames = @ + dropped]
                          ELSE metrics
            /\ ret' = Ret("try_receive_preview", "Ok", Some(newest), None)
            /\ hist' = [hist EXCEPT !.delivered = Append(@, newest.sequence),
                                    !.poll_k = 0, !.poll_sent = 0]
    /\ lock_holder' = [lock_holder EXCEPT !.result_rx = "none"]
    /\ caller_pc' = "idle"
    /\ UNCHANGED <<renderer, input, output, next_sequence, latest_sequence, job_channel, result_channel,
                   request, sequence, newest, dropped, worker_vars>>

\* ------------------------------------------------------- facade: metrics
Metrics ==
    /\ caller_pc = "idle"
    /\ MetricsLockFree
    /\ ret' = IF MetricsPoisoned
              THEN Ret("metrics", "Err", None, None)
              ELSE Ret("metrics", "Ok", None, Some(snapshot(metrics)))
    /\ hist' = [hist EXCEPT !.entered_poisoned = MetricsPoisoned]
    /\ UNCHANGED <<renderer, input, output, lock_holder, next_sequence, latest_sequence, job_channel, result_channel,
                   metrics, caller_pc, request, sequence, newest, dropped, worker_vars>>

\* ------------------------------------------- the facade goes out of scope
\* Dropping BackgroundPreviewPipeline drops submit_tx and result_rx (and the
\* frames still buffered in the result channel).
DropPipeline ==
    /\ caller_pc = "idle"
    /\ caller_pc' = "dropped"
    /\ result_channel' = <<>>
    /\ hist' = [hist EXCEPT !.buffered = {job_channel[i].sequence : i \in DOMAIN job_channel}]
    /\ UNCHANGED <<renderer, input, output, lock_holder, next_sequence, latest_sequence, job_channel, metrics,
                   request, sequence, newest, dropped, ret, worker_vars>>

\* ------------------------------------------------------ worker: spawn_worker
\* Mutant: the worker keeps a clone of submit_tx, so recv() on an empty channel
\* blocks instead of returning Err after the facade is dropped.
WorkerRecv_NeverDisconnects ==
    /\ worker_pc = "recv"
    /\ job_channel # <<>>
    /\ job' = Recv(job_channel).item
    /\ job_channel' = Recv(job_channel).rest
    /\ worker_pc' = "drain"
    /\ hist' = [hist EXCEPT !.wake_taken = 1, !.wake_canceled = metrics.canceled_jobs,
                            !.wake_renders = 0]
    /\ UNCHANGED <<renderer, input, output, lock_holder, next_sequence, latest_sequence, result_channel, metrics,
                   caller_vars, elapsed>>

\* while let Ok(mut job) = submit_rx.recv() {      (blocking; Err once the
\* channel is empty and submit_tx has been dropped)
WorkerRecv ==
    /\ worker_pc = "recv"
    /\ IF job_channel # <<>>
       THEN /\ job' = Recv(job_channel).item
            /\ job_channel' = Recv(job_channel).rest
            /\ worker_pc' = "drain"
            /\ hist' = [hist EXCEPT !.wake_taken = 1, !.wake_canceled = metrics.canceled_jobs,
                                    !.wake_renders = 0]
       ELSE /\ ~FacadeAlive
            /\ worker_pc' = "exited"
            /\ UNCHANGED <<job, job_channel, hist>>
    /\ UNCHANGED <<renderer, input, output, lock_holder, next_sequence, latest_sequence, result_channel, metrics,
                   caller_vars, elapsed>>

\* Mutant: "if let" instead of "while let": the worker tries the job channel
\* once and goes on to the staleness check.
WorkerDrain_IfLet ==
    /\ worker_pc = "drain"
    /\ job_channel # <<>> => MetricsLockFree
    /\ IF job_channel # <<>>
       THEN /\ metrics' = mark_canceled(metrics, 1)
            /\ job' = Recv(job_channel).item
            /\ job_channel' = Recv(job_channel).rest
            /\ hist' = [hist EXCEPT !.wake_taken = @ + 1]
       ELSE UNCHANGED <<metrics, job, job_channel, hist>>
    /\ worker_pc' = "precheck"
    /\ UNCHANGED <<renderer, input, output, lock_holder, next_sequence, latest_sequence, result_channel,
                   caller_vars, elapsed>>

\* Mutant: the drain loop discards the newer job and keeps its first candidate.
WorkerDrain_KeepsFirst ==
    /\ worker_pc = "drain"
    /\ job_channel # <<>> => MetricsLockFree
    /\ IF job_channel # <<>>
       THEN /\ metrics' = mark_canceled(metrics, 1)
            /\ job_channel' = Recv(job_channel).rest
            /\ hist' = [hist EXCEPT !.wake_taken = @ + 1]
            /\ UNCHANGED <<job, worker_pc>>
       ELSE /\ worker_pc' = "precheck"
            /\ UNCHANGED <<metrics, job, job_channel, hist>>
    /\ UNCHANGED <<renderer, input, output, lock_holder, next_sequence, latest_sequence, result_channel,
                   caller_vars, elapsed>>

\* Mutant: the drain loop adopts the next job without calling mark_canceled.
WorkerDrain_NoCancel ==
    /\ worker_pc = "drain"
    /\ IF job_channel # <<>>
       THEN /\ job' = Recv(job_channel).item
            /\ job_channel' = Recv(job_channel).rest
            /\ hist' = [hist EXCEPT !.wake_taken = @ + 1]
            /\ UNCHANGED <<metrics, worker_pc>>
       ELSE /\ worker_pc' = "precheck"
            /\ UNCHANGED <<metrics, job, job_channel, hist>>
    /\ UNCHANGED <<renderer, input, output, lock_holder, next_sequence, latest_sequence, result_channel,
                   caller_vars, elapsed>>

\* while let Ok(next) = submit_rx.try_recv() { mark_canceled(&metrics, 1); job = next; }
WorkerDrain ==
    /\ worker_pc = "drain"
    /\ job_channel # <<>> => MetricsLockFree
    /\ IF job_channel # <<>>
       THEN /\ metrics' = mark_canceled(metrics, 1)
            /\ job' = Recv(job_channel).item
            /\ job_channel' = Recv(job_channel).rest
            /\ hist' = [hist EXCEPT !.wake_taken = @ + 1]
            /\ UNCHANGED worker_pc
       ELSE /\ worker_pc' = "precheck"
            /\ UNCHANGED <<metrics, job, job_channel, hist>>
    /\ UNCHANGED <<renderer, input, output, lock_holder, next_sequence, latest_sequence, result_channel,
                   caller_vars, elapsed>>

\* Mutant: the comparison is <= instead of <.
Stale_Inclusive(j) == j.sequence <= latest_sequence

\* if job.sequence < latest_sequence.load(SeqCst) { mark_canceled(&metrics, 1); continue; }
Stale(j) == j.sequence < latest_sequence

\* Mutant: the worker takes the metrics lock before rendering and keeps the
\* guard alive across renderer.render.
WorkerPreCheck_LocksAcrossRender ==
    /\ worker_pc = "precheck"
    /\ MetricsLockFree
    /\ IF Stale(job)
       THEN /\ metrics' = mark_canceled(metrics, 1)
            /\ worker_pc' = "recv"
            /\ UNCHANGED lock_holder
       ELSE /\ worker_pc' = "render"
            /\ lock_holder' = [lock_holder EXCEPT !.metrics = "worker"]
            /\ UNCHANGED metrics
    /\ UNCHANGED <<renderer, input, output, next_sequence, latest_sequence, job_channel, result_channel,
                   caller_vars, job, elapsed, hist>>

\* Mutant: the pre-render staleness check is left out.
WorkerPreCheck_NoCheck ==
    /\ worker_pc = "precheck"
    /\ worker_pc' = "render"
    /\ UNCHANGED <<renderer, input, output, lock_holder, next_sequence, latest_sequence, job_channel, result_channel,
                   metrics, caller_vars, job, elapsed, hist>>

\* the pre-render staleness check, made after the drain loop
WorkerPreCheck ==
    /\ worker_pc = "precheck"
    /\ Stale(job) => MetricsLockFree
    /\ IF Stale(job)
       THEN /\ metrics' = mark_canceled(metrics, 1)
            /\ worker_pc' = "recv"
       ELSE /\ worker_pc' = "render"
            /\ UNCHANGED metrics
    /\ UNCHANGED <<renderer, input, output, lock_holder, next_sequence, latest_sequence, job_channel, result_channel,
                   caller_vars, job, elapsed, hist>>

\* 1 when the job being rendered was still buffered in the job channel when
\* the facade was dropped, else 0.
BufferedRender == IF job.sequence \in hist.buffered THEN 1 ELSE 0

\* Mutant: a render error ends the worker (return instead of continue).
WorkerRender_FailureExits ==
    /\ worker_pc = "render"
    /\ \E outcome \in RenderOutcomes(renderer, job.request) :
          CASE outcome = "Ok" ->
                  /\ \E ms \in Elapsed : elapsed' = ms
                  /\ worker_pc' = "postcheck"
                  /\ hist' = [hist EXCEPT !.first_render_at =
                                 IF @ = -1 THEN hist.submits_done ELSE @,
                                 !.wake_renders = @ + 1]
                  /\ UNCHANGED <<metrics, job_channel>>
            [] outcome = "panic" ->
                  /\ worker_pc' = "panicked"
                  /\ job_channel' = <<>>
                  /\ hist' = [hist EXCEPT !.wake_renders = @ + 1]
                  /\ UNCHANGED <<metrics, elapsed>>
            [] OTHER ->
                  /\ MetricsLockFree
                  /\ metrics' = mark_canceled(metrics, 1)
                  /\ worker_pc' = "exited"
                  /\ job_channel' = <<>>
                  /\ hist' = [hist EXCEPT !.render_failed = @ \cup {job.sequence},
                                          !.wake_renders = @ + 1]
                  /\ UNCHANGED elapsed
    /\ UNCHANGED <<renderer, input, output, lock_holder, next_sequence, latest_sequence, result_channel,
                   caller_vars, job>>

\* let started = Instant::now();
\* let rendered = match renderer.render(job.request) {
\*     Ok(rendered) => rendered, Err(_) => { mark_canceled(&metrics, 1); continue; } };
\* let elapsed = started.elapsed().as_millis() as u64;
\* A panic inside render unwinds the thread: submit_rx and result_tx are dropped.
WorkerRender ==
    /\ worker_pc = "render"
    /\ \E outcome \in RenderOutcomes(renderer, job.request) :
          CASE outcome = "Ok" ->
                  /\ \E ms \in Elapsed : elapsed' = ms
                  /\ worker_pc' = "postcheck"
                  /\ hist' = [hist EXCEPT !.first_render_at =
                                     IF @ = -1 THEN hist.submits_done ELSE @,
                                 !.wake_renders = @ + 1,
                                 !.buffered_renders = @ + BufferedRender]
                  /\ UNCHANGED <<metrics, job_channel>>
            [] outcome = "panic" ->
                  /\ worker_pc' = "panicked"
                  /\ job_channel' = <<>>
                  /\ hist' = [hist EXCEPT !.buffered_renders = @ + BufferedRender,
                                          !.wake_renders = @ + 1]
                  /\ UNCHANGED <<metrics, elapsed>>
            [] OTHER ->
                  /\ MetricsLockFree
                  /\ metrics' = mark_canceled(metrics, 1)
                  /\ worker_pc' = "recv"
                  /\ hist' = [hist EXCEPT !.render_failed = @ \cup {job.sequence},
                                          !.wake_renders = @ + 1,
                                          !.buffered_renders = @ + BufferedRender]
                  /\ UNCHANGED <<elapsed, job_channel>>
    /\ UNCHANGED <<renderer, input, output, lock_holder, next_sequence, latest_sequence, result_channel,
                   caller_vars, job>>

\* Mutant: the post-render staleness re-check is left out.
WorkerPostCheck_NoCheck ==
    /\ worker_pc = "postcheck"
    /\ worker_pc' = "send"
    /\ hist' = [hist EXCEPT !.first_check_at = IF @ = -1 THEN hist.submits_done ELSE @]
    /\ UNCHANGED <<renderer, input, output, lock_holder, next_sequence, latest_sequence, job_channel, result_channel,
                   metrics, caller_vars, job, elapsed>>

\* Mutant: the post-render check discards a stale job without counting it.
WorkerPostCheck_Uncounted ==
    /\ worker_pc = "postcheck"
    /\ worker_pc' = IF Stale(job) THEN "recv" ELSE "send"
    /\ hist' = [hist EXCEPT !.first_check_at = IF @ = -1 THEN hist.submits_done ELSE @]
    /\ UNCHANGED <<renderer, input, output, lock_holder, next_sequence, latest_sequence, job_channel, result_channel,
                   metrics, caller_vars, job, elapsed>>

\* if job.sequence < latest_sequence.load(SeqCst) { mark_canceled(&metrics, 1); continue; }
WorkerPostCheck ==
    /\ worker_pc = "postcheck"
    /\ Stale(job) => MetricsLockFree
    /\ IF Stale(job)
       THEN /\ metrics' = mark_canceled(metrics, 1)
            /\ worker_pc' = "recv"
       ELSE /\ worker_pc' = "send"
            /\ UNCHANGED metrics
    /\ hist' = [hist EXCEPT !.first_check_at = IF @ = -1 THEN hist.submits_done ELSE @]
    /\ UNCHANGED <<renderer, input, output, lock_holder, next_sequence, latest_sequence, job_channel, result_channel,
                   caller_vars, job, elapsed>>

\* let frame = PreviewFrame { image_id, sequence: job.sequence, .. render_time_ms: elapsed, .. };
\* if result_tx.send(frame).is_err() { return; }
Frame(j, ms) == [image_id |-> j.request.image_id, sequence |-> j.sequence, render_time_ms |-> ms]

WorkerSend ==
    /\ worker_pc = "send"
    /\ IF FacadeAlive
       THEN /\ result_channel' = Send(result_channel, Frame(job, elapsed))
            /\ worker_pc' = "complete"
            /\ hist' = [hist EXCEPT !.published = Append(@, job.sequence),
                                    !.poll_sent = IF caller_pc = "poll_drain" THEN @ + 1 ELSE @]
            /\ UNCHANGED job_channel
       ELSE /\ worker_pc' = "exited"
            /\ job_channel' = <<>>
            /\ UNCHANGED <<result_channel, hist>>
    /\ UNCHANGED <<renderer, input, output, lock_holder, next_sequence, latest_sequence, metrics,
                   caller_vars, job, elapsed>>

\* Mutant: a published job is counted both completed and canceled.
WorkerComplete_CountsTwice ==
    /\ worker_pc = "complete"
    /\ MetricsLockFree
    /\ metrics' = IF MetricsPoisoned THEN metrics
                  ELSE push_render_sample([metrics EXCEPT !.completed_jobs = @ + 1,
                                                          !.canceled_jobs = @ + 1], elapsed)
    /\ worker_pc' = "recv"
    /\ UNCHANGED <<renderer, input, output, lock_holder, next_sequence, latest_sequence, job_channel, result_channel,
                   caller_vars, job, elapsed, hist>>

\* if let Ok(mut m) = metrics.lock() { m.completed_jobs += 1; m.push_render_sample(elapsed); }
WorkerComplete ==
    /\ worker_pc = "complete"
    /\ MetricsLockFree
    /\ metrics' = IF MetricsPoisoned THEN metrics
                  ELSE push_render_sample([metrics EXCEPT !.completed_jobs = @ + 1], elapsed)
    /\ worker_pc' = "recv"
    /\ UNCHANGED <<renderer, input, output, lock_holder, next_sequence, latest_sequence, job_channel, result_channel,
                   caller_vars, job, elapsed, hist>>

\* -------------------------------------------------------------------- Next
Next ==
    \/ SubmitFetchAdd
    \/ SubmitStoreLatest
    \/ SubmitCount
    \/ SubmitSend
    \/ PollFirst
    \/ PollDrain
    \/ PollFinish
    \/ Metrics
    \/ DropPipeline
    \/ WorkerRecv
    \/ WorkerDrain
    \/ WorkerPreCheck
    \/ WorkerRender
    \/ WorkerPostCheck
    \/ WorkerSend
    \/ WorkerComplete

Spec == Init /\ [][Next]_vars

\* ================================================================= claims
\* Frames removed from the result channel by try_receive_preview so far
\* (while the facade, and with it result_rx, exists).
Taken == Len(hist.published) - Len(result_channel)

\* C1: latest submission wins.  A job passes the post-render staleness check,
\* and so is placed on the result channel, only if no submit_preview call for
\* a higher sequence number has returned by then.  Hence if N >= 1 calls have
\* all returned before the worker makes the post-render check of any of their
\* jobs (for the first burst: first_check_at = N), no frame with a sequence
\* number below N is ever placed on the result channel or returned by
\* try_receive_preview: of the burst only N can be delivered.
C1_LatestSubmissionWins ==
    /\ [](hist.first_check_at >= 1 =>
            /\ \A i \in 1..Len(hist.published) : hist.published[i] >= hist.first_check_at
            /\ \A i \in 1..Len(hist.delivered) : hist.delivered[i] >= hist.first_check_at)
    /\ [][(worker_pc = "postcheck" /\ worker_pc' = "send") =>
             job.sequence >= hist.submits_done]_vars
    /\ [][hist'.published # hist.published =>
             (worker_pc = "send" /\ hist'.published = Append(hist.published, job.sequence))]_vars

C1_Witness ==
    /\ hist.first_check_at >= 2
    /\ hist.delivered = <<hist.first_check_at>>

\* C2: the sequence numbers returned by successive non-None polls are
\* non-decreasing, under every interleaving of submits, worker steps and polls.
C2_DeliveredNonDecreasing ==
    \A i \in 1..(Len(hist.delivered) - 1) : hist.delivered[i] <= hist.delivered[i + 1]

C2_Witness ==
    /\ Len(hist.delivered) >= 2
    /\ hist.delivered[1] < hist.delivered[2]

\* C3: a try_receive_preview call that finds k >= 1 frames (the poll_k frames
\* in the channel at its first try_recv plus the poll_sent frames that arrive
\* while it drains) removes all k, returns the one sent last, which has the
\* highest sequence number, adds exactly k-1 to dropped_frames and changes no
\* other counter.
C3_DrainKeepsNewest ==
    [][(caller_pc = "poll_finish" /\ caller_pc' = "idle") =>
          LET k == hist.poll_k + hist.poll_sent IN
          /\ k >= 1
          /\ dropped + 1 = k
          /\ ret'.kind = "Ok" /\ ret'.frame = Some(newest)
          /\ newest.sequence = hist.published[Taken]
          /\ \A i \in 1..Taken : hist.published[i] <= newest.sequence
          /\ metrics'.dropped_frames = metrics.dropped_frames + (k - 1)
          /\ metrics' = [metrics EXCEPT !.dropped_frames = metrics'.dropped_frames]
    ]_vars

C3_Witness ==
    /\ caller_pc = "idle"
    /\ ret.op = "try_receive_preview" /\ ret.frame # None
    /\ metrics.dropped_frames >= 1

\* C4: with an empty result channel and a live worker, try_receive_preview
\* returns Ok(None) in one step and leaves the counters, the latency window,
\* latest_sequence and both channels as they were.
C4_EmptyPollChangesNothing ==
    [][(/\ caller_pc = "idle" /\ caller_pc' = "idle"
        /\ ret' # ret /\ ret'.op = "try_receive_preview"
        /\ result_channel = <<>> /\ WorkerAlive) =>
          /\ ret'.kind = "Ok" /\ ret'.frame = None
          /\ UNCHANGED <<metrics, next_sequence, latest_sequence, job_channel, result_channel>>
    ]_vars

C4_Witness ==
    /\ ret.op = "try_receive_preview" /\ ret.kind = "Ok" /\ ret.frame = None
    /\ result_channel = <<>> /\ WorkerAlive
    /\ metrics.submitted_jobs >= 1

\* C5: the i-th successful submit_preview call enqueues exactly one job, with
\* sequence number i and the request it was given, and has raised
\* submitted_jobs to i: sequence numbers start at 1 and are consecutive.
C5_SubmitEnqueuesNextSequence ==
    [][(caller_pc = "submit_send" /\ caller_pc' = "idle" /\ ret'.kind = "Ok") =>
          /\ job_channel' = Append(job_channel,
                 [sequence |-> hist.submits_done + 1, request |-> hist.arg])
          /\ metrics.submitted_jobs = hist.submits_done + 1
          /\ metrics'.submitted_jobs = metrics.submitted_jobs
    ]_vars

C5_Witness ==
    /\ hist.submits_done >= 2
    /\ Len(job_channel) >= 2
    /\ job_channel[1].request # job_channel[2].request

\* C6: latest_sequence is written before the job is enqueued: every job in the
\* job channel or held by the worker has sequence <= latest_sequence, and once
\* submit_preview has stored (and so after it has returned) for sequence s,
\* latest_sequence >= s.
C6_LatestCoversEnqueued ==
    /\ \A i \in 1..Len(job_channel) : job_channel[i].sequence <= latest_sequence
    /\ job.sequence <= latest_sequence
    /\ caller_pc # "submit_store" => latest_sequence >= sequence

C6_Witness ==
    /\ worker_pc = "render"
    /\ job_channel # <<>>
    /\ job_channel[Len(job_channel)].sequence = latest_sequence
    /\ caller_pc = "idle"

\* C7: once try_receive_preview has returned a frame, a metrics() call made
\* afterwards by the same caller counts every frame taken off the result
\* channel (returned or dropped) as completed.
C7_MetricsCountReceivedFrames ==
    ret.op = "metrics" =>
        ret.snap[1].completed_jobs >= Len(hist.delivered) + ret.snap[1].dropped_frames

\* C8: if N submissions have all returned before the worker finishes its first
\* render (first_render_at = N), then once a poll has returned the frame with
\* sequence N, canceled_jobs is at least N-1.  For a later burst the same
\* holds relative to the jobs before it: by the time the i-th published frame,
\* with sequence s, is sent, each of the s-1 older jobs that was not published
\* (there are s-i of them) has been counted canceled.
C8_BurstCancelsSuperseded ==
    /\ (/\ hist.first_render_at >= 1
        /\ \E i \in 1..Len(hist.delivered) : hist.delivered[i] = hist.first_render_at) =>
           metrics.canceled_jobs >= hist.first_render_at - 1
    /\ \A i \in 1..Len(hist.published) : metrics.canceled_jobs >= hist.published[i] - i

C8_Witness ==
    /\ hist.first_render_at >= 2
    /\ \E i \in 1..Len(hist.delivered) : hist.delivered[i] = hist.first_render_at

\* C9 as stated: every increment of canceled_jobs is for a job with sequence s
\* in a state where some sequence > s has already been assigned, so never for
\* the job holding the highest sequence number submitted so far.
C9_CanceledOnlyWhenSuperseded ==
    [][metrics'.canceled_jobs # metrics.canceled_jobs => job.sequence < next_sequence]_vars

\* C9 amended: every increment of canceled_jobs is by one, for the job the
\* worker holds, and happens either in a state where a sequence number above
\* that job's has already been assigned, or because renderer.render returned
\* an error for that job.
C9_CanceledWhenSupersededOrFailed ==
    [][metrics'.canceled_jobs # metrics.canceled_jobs =>
          /\ metrics'.canceled_jobs = metrics.canceled_jobs + 1
          /\ \/ job.sequence < next_sequence
             \/ /\ worker_pc = "render" /\ worker_pc' = "recv"
                /\ job.sequence \in hist'.render_failed
    ]_vars

C9_Witness ==
    /\ metrics.canceled_jobs >= 1
    /\ hist.render_failed = {}
    /\ worker_pc = "recv"

\* C10: a render failure does not stop the worker loop and is not returned by
\* any facade operation: the step in which render returns Err adds exactly 1
\* to canceled_jobs, publishes nothing, completes nothing and takes the worker
\* back to its blocking receive; a facade operation returns Err only once the
\* worker thread is gone.
C10_RenderFailureIsSwallowed ==
    /\ [](ret.kind = "Err" => ~WorkerAlive)
    /\ [][(worker_pc = "render" /\ worker_pc' \notin {"render", "postcheck", "panicked"}) =>
             /\ worker_pc' = "recv"
             /\ metrics' = [metrics EXCEPT !.canceled_jobs = @ + 1]
             /\ UNCHANGED <<result_channel, ret, latest_sequence, next_sequence>>
             /\ hist'.published = hist.published
       ]_vars

\* a job failed to render and a job submitted later was published
C10_Witness ==
    \E s \in hist.render_failed :
        \E i \in 1..Len(hist.published) : hist.published[i] > s

\* ============================================ fair runs of a live pipeline
\* The pipeline while its owner keeps it and keeps polling: the facade is not
\* dropped, at most LiveSubmits requests are submitted, and both OS threads
\* keep running (the worker loop, a started submit_preview call, and the
\* poller, which the UI calls on every redraw tick).
LiveSubmits == 2

LiveSubmit == next_sequence < LiveSubmits /\ SubmitFetchAdd

SubmitStep == SubmitStoreLatest \/ SubmitCount \/ SubmitSend
PollStep == PollFirst \/ PollDrain \/ PollFinish
WorkerStep ==
    \/ WorkerRecv \/ WorkerDrain \/ WorkerPreCheck \/ WorkerRender
    \/ WorkerPostCheck \/ WorkerSend \/ WorkerComplete

LiveNext == LiveSubmit \/ SubmitStep \/ PollStep \/ WorkerStep

LiveSpec ==
    /\ Init /\ [][LiveNext]_vars
    /\ WF_vars(SubmitStep) /\ WF_vars(PollStep) /\ WF_vars(WorkerStep)

\* C11: if submissions stop after sequence N, the render of job N does not
\* fail and the worker thread stays alive, then eventually try_receive_preview
\* has returned the frame with sequence N as its last frame, and from then on
\* the result channel stays empty: every later poll returns None.
C11_PollerEndsUpCurrent ==
    \A N \in 1..LiveSubmits :
        (/\ <>[](next_sequence = N /\ caller_pc \notin {"submit_store", "submit_count", "submit_send"})
         /\ [](worker_pc # "panicked" /\ N \notin hist.render_failed))
        => <>[](/\ hist.delivered # <<>>
                /\ hist.delivered[Len(hist.delivered)] = N
                /\ result_channel = <<>>
                /\ worker_pc = "recv" /\ job_channel = <<>>)

C11_Witness ==
    /\ next_sequence = LiveSubmits
    /\ hist.delivered # <<>> /\ hist.delivered[Len(hist.delivered)] = LiveSubmits
    /\ ret = Ret("try_receive_preview", "Ok", None, None)
    /\ worker_pc = "recv"

\* C12: the caller never waits for a render.  Whenever the worker is inside
\* renderer.render it holds neither the metrics mutex nor the result_rx
\* mutex, and the next step of whichever facade operation the caller is in
\* (or is about to start) can be taken.
C12_RenderHoldsNoLock ==
    worker_pc = "render" =>
        /\ lock_holder.metrics # "worker"
        /\ lock_holder.result_rx # "worker"
        /\ caller_pc = "idle" =>
              /\ ENABLED Metrics
              /\ ENABLED PollFirst
              /\ next_sequence < MaxSubmits => ENABLED SubmitFetchAdd
        /\ caller_pc = "submit_store" => ENABLED SubmitStoreLatest
        /\ caller_pc = "submit_count" => ENABLED SubmitCount
        /\ caller_pc = "submit_send" => ENABLED SubmitSend
        /\ caller_pc = "poll_drain" => ENABLED PollDrain
        /\ caller_pc = "poll_finish" => ENABLED PollFinish

C12_Witness ==
    /\ worker_pc = "render"
    /\ caller_pc = "poll_finish" /\ dropped > 0

\* ================================================= a poisoned metrics mutex
\* The metrics mutex becomes poisoned when a thread panics inside one of its
\* lock regions (an arithmetic overflow of a counter in a build with overflow
\* checks): the caller's thread inside submit_preview, after which the facade
\* is still used, or the worker thread inside its completed update, which
\* also ends the worker.
PoisonSubmits == 2

PoisonSubmit == next_sequence < PoisonSubmits /\ SubmitFetchAdd

CallerPanicsInLock ==
    /\ caller_pc = "submit_count"
    /\ MetricsLockFree /\ ~MetricsPoisoned
    /\ lock_holder' = [lock_holder EXCEPT !.metrics_poisoned = TRUE]
    /\ ret' = Ret("submit_preview", "panic", None, None)
    /\ caller_pc' = "idle"
    /\ UNCHANGED <<renderer, input, output, next_sequence, latest_sequence, job_channel, result_channel,
                   metrics, request, sequence, newest, dropped, worker_vars, hist>>

WorkerPanicsInLock ==
    /\ worker_pc = "complete"
    /\ MetricsLockFree /\ ~MetricsPoisoned
    /\ lock_holder' = [lock_holder EXCEPT !.metrics_poisoned = TRUE]
    /\ worker_pc' = "panicked"
    /\ job_channel' = <<>>
    /\ UNCHANGED <<renderer, input, output, next_sequence, latest_sequence, result_channel, metrics,
                   caller_vars, job, elapsed, hist>>

PoisonNext ==
    \/ PoisonSubmit \/ SubmitStep \/ PollStep \/ Metrics \/ WorkerStep
    \/ CallerPanicsInLock \/ WorkerPanicsInLock

PoisonSpec == Init /\ [][PoisonNext]_vars

\* A facade call returns in this step.
ReturnStep ==
    \/ caller_pc # "idle" /\ caller_pc' = "idle"
    \/ caller_pc = "idle" /\ caller_pc' = "idle" /\ ret' # ret

\* C13 as stated: every facade call made while the metrics mutex is poisoned
\* returns an error, however many frames are waiting.
C13_PoisonedAlwaysErrors ==
    [][(ReturnStep /\ hist'.entered_poisoned) => ret'.kind = "Err"]_vars

\* C13 amended: every submit_preview and metrics call made while the metrics
\* mutex is poisoned returns an error; try_receive_preview returns an error
\* exactly when it drained two or more frames (dropped > 0, the only case in
\* which it takes the metrics lock) or when the channel is empty and
\* disconnected; otherwise it returns Ok(None) or Ok(Some(frame)).  None of
\* these calls changes a counter.
C13_PoisonedErrorsWhereLocked ==
    [][(ReturnStep /\ hist'.entered_poisoned) =>
          /\ ret'.op \in {"submit_preview", "metrics"} => ret'.kind = "Err"
          /\ (ret'.op = "try_receive_preview" /\ caller_pc = "poll_finish") =>
                /\ ret'.kind = "Err" <=> dropped > 0
                /\ ret'.kind = "Ok" => ret'.frame = Some(newest)
          /\ (ret'.op = "try_receive_preview" /\ caller_pc = "idle") =>
                /\ ret'.kind = "Err" <=> ~WorkerAlive
                /\ ret'.kind = "Ok" => ret'.frame = None
          /\ metrics' = metrics
    ]_vars

C13_Witness ==
    /\ hist.entered_poisoned /\ caller_pc = "idle"
    /\ ret.op = "try_receive_preview" /\ ret.kind = "Ok" /\ ret.frame # None

\* submit_preview returns Ok or Err in this step.
SubmitReturns ==
    /\ caller_pc \in {"submit_count", "submit_send"} /\ caller_pc' = "idle"
    /\ ret'.op = "submit_preview" /\ ret'.kind \in {"Ok", "Err"}

\* C14 as stated: submit_preview returns an error only in states where the
\* worker's end of the job channel no longer exists; whenever the worker is
\* alive, submit_preview returns Ok.
C14_SubmitFailsOnlyWhenWorkerGone ==
    [][SubmitReturns =>
          /\ ret'.kind = "Err" => ~WorkerAlive
          /\ WorkerAlive => ret'.kind = "Ok"
    ]_vars

\* C14 amended: submit_preview returns an error only when the metrics mutex is
\* poisoned (at the submitted_jobs update, before anything is enqueued) or the
\* worker's end of the job channel no longer exists (at the send); whenever
\* the worker is alive and the metrics mutex is not poisoned it returns Ok,
\* with the job appended to the channel.
C14_SubmitFailsWhenWorkerGoneOrPoisoned ==
    [][SubmitReturns =>
          /\ caller_pc = "submit_count" => (MetricsPoisoned /\ ret'.kind = "Err")
          /\ caller_pc = "submit_send" => (ret'.kind = "Err" <=> ~WorkerAlive)
          /\ ret'.kind = "Err" => (job_channel' = job_channel /\ metrics' = metrics)
          /\ ret'.kind = "Ok" =>
                job_channel' = Append(job_channel, [sequence |-> sequence, request |-> request])
    ]_vars

C14_Witness ==
    /\ caller_pc = "idle" /\ ret = Ret("submit_preview", "Err", None, None)
    /\ worker_pc = "panicked" /\ ~MetricsPoisoned /\ metrics.submitted_jobs = 2

\* ============================================================== teardown
\* The caller submits, then drops the facade; the worker thread keeps being
\* scheduled (recv, try_recv, the render and the channel operations return).
TeardownNext == LiveSubmit \/ SubmitStep \/ DropPipeline \/ WorkerStep

TeardownSpec == Init /\ [][TeardownNext]_vars /\ WF_vars(WorkerStep)

\* C15: termination on teardown.  Once the facade is dropped the worker
\* thread eventually terminates (it returns from the loop, or unwinds from a
\* renderer panic) and stays terminated; it starts a render for at most one of
\* the jobs that were still buffered in the job channel; and nothing is
\* published after the receiver is gone.
C15_WorkerTerminatesOnTeardown ==
    /\ [](~FacadeAlive => <>[](worker_pc \in {"exited", "panicked"}))
    /\ [](hist.buffered_renders <= 1)
    /\ [](~FacadeAlive => result_channel = <<>>)
    /\ [][~FacadeAlive => hist'.published = hist.published]_vars

C15_Witness ==
    /\ ~FacadeAlive /\ worker_pc = "exited"
    /\ Cardinality(hist.buffered) = LiveSubmits /\ hist.buffered_renders = 1

\* ============================================================== counters
Counters == {"submitted_jobs", "completed_jobs", "canceled_jobs", "dropped_frames"}

\* C16: the four counters never decrease.  No step of the caller or of the
\* worker lowers a counter of the shared MetricsState; every metrics() call
\* returns the counters as they are at that moment; so of any two snapshots
\* taken in order the later one is >= the earlier one in each counter.  The
\* last conjunct compares two snapshots directly: a metrics() call made while
\* the previous snapshot is still the caller's last result (any number of
\* worker steps in between) returns counters >= those of that snapshot.
C16_CountersNeverDecrease ==
    /\ [][\A c \in Counters : metrics'[c] >= metrics[c]]_vars
    /\ [][(ret' # ret /\ ret'.op = "metrics" /\ ret'.kind = "Ok") =>
             \A c \in Counters : ret'.snap[1][c] = metrics[c]]_vars
    /\ [][(ret.op = "metrics" /\ ret.kind = "Ok" /\ ret'.op = "metrics" /\ ret'.kind = "Ok") =>
             \A c \in Counters : ret'.snap[1][c] >= ret.snap[1][c]]_vars

C16_Witness ==
    /\ ret.op = "metrics" /\ ret.kind = "Ok"
    /\ \A c \in Counters : ret.snap[1][c] >= 1
    /\ \E c \in Counters : metrics[c] > ret.snap[1][c]

\* ======================================================= the latency window
\* MetricsState::push_render_sample applied to a fresh MetricsState, one
\* sample of a stream of render times after the other, past the capacity of
\* the window.
MaxPushes == 66

\* Streams of render times: strictly increasing, periodic with periods that
\* do not divide the window size, and constant.
SampleStreams ==
    { [k \in 1..MaxPushes |-> k],
      [k \in 1..MaxPushes |-> (k * 3) % 7],
      [k \in 1..MaxPushes |-> (k * 2) % 5],
      [k \in 1..MaxPushes |-> 16] }

WindowInit ==
    /\ PipelineInit
    /\ input \in SampleStreams
    /\ output = [state |-> MetricsDefault, pushes |-> 0]

PushSample ==
    /\ output.pushes < Len(input)
    /\ output' = [state  |-> push_render_sample(output.state, input[output.pushes + 1]),
                  pushes |-> output.pushes + 1]
    /\ UNCHANGED <<pipeline_vars, input>>

WindowSpec == WindowInit /\ [][PushSample]_vars

Min(a, b) == IF a <= b THEN a ELSE b

\* C17: the latency window is a bounded FIFO.  After n pushes its length is
\* min(n, 64), it holds the last min(n, 64) samples pushed, in push order,
\* and last_render_time_ms is the sample pushed last (None before any push);
\* no counter is touched.
C17_WindowIsBoundedFifo ==
    LET n      == output.pushes
        window == output.state.render_samples_ms
        kept   == Min(n, METRIC_WINDOW_SIZE)
    IN  /\ Len(window) = kept
        /\ \A i \in 1..kept : window[i] = input[n - kept + i]
        /\ output.state.last_render_time_ms = IF n = 0 THEN None ELSE Some(input[n])
        /\ \A c \in Counters : output.state[c] = 0

C17_Witness ==
    /\ output # None
    /\ output.pushes = METRIC_WINDOW_SIZE + 2
    /\ input[1] = 1
    /\ output.state.render_samples_ms[1] = 3
    /\ Len(output.state.render_samples_ms) = METRIC_WINDOW_SIZE

\* ============================================================ percentile_95
\* percentile_95 evaluated on a latency window: every window of up to MaxLen
\* samples over three render times, in every order, and the ladders
\* 10, 20, .., 10 n and their reversals for every window length n.
MaxLen == 3

SampleValues == {10, 20, 30}

Ladder(n) == [i \in 1..n |-> 10 * i]
ReverseLadder(n) == [i \in 1..n |-> 10 * (n + 1 - i)]

PercentileWindows ==
    UNION { [1..n -> SampleValues] : n \in 0..MaxLen }
    \cup { Ladder(n) : n \in 1..METRIC_WINDOW_SIZE }
    \cup { ReverseLadder(n) : n \in 1..METRIC_WINDOW_SIZE }

PercentileInit ==
    /\ PipelineInit
    /\ input \in PercentileWindows
    /\ output = None

\* let mut sorted = self.render_samples_ms.clone(); ... : the window itself
\* (input) is only read.
Percentile95 ==
    /\ output = None
    /\ output' = [p95 |-> percentile_95(input)]
    /\ UNCHANGED <<pipeline_vars, input>>

PercentileSpec == PercentileInit /\ [][Percentile95]_vars

\* The result of percentile_95, once computed, is the nearest-rank sample of
\* the window.
NearestRank ==
    output # None =>
        LET n == Len(input)
            v == output.p95
        IN  /\ v = None <=> n = 0
            /\ n >= 1 =>
                 \E idx \in 0..(n - 1) :
                    /\ 100 * idx <= 95 * (n - 1) + 50
                    /\ 95 * (n - 1) + 50 < 100 * (idx + 1)
                    /\ \E j \in 1..n :
                          /\ v = Some(input[j])
                          /\ Cardinality({i \in 1..n : input[i] < input[j]}) <= idx
                          /\ Cardinality({i \in 1..n : input[i] <= input[j]}) > idx
            /\ input = Ladder(10) => v = Some(100)

\* C18: percentile_95 is nearest-rank.  For a window of n >= 1 samples the
\* result is Some(x) where x is the sample at 0-based position idx of the
\* ascending order (fewer than idx + 1 samples are smaller than x, more than
\* idx samples are at most x), idx being (n - 1) * 0.95 rounded to the nearest
\* integer, half up, which is at most n - 1; x is a sample of the window; the
\* ladder 10..100 gives 100; the result is None exactly for the empty
\* window; and the window is left as it was.
C18_PercentileIsNearestRank ==
    /\ []NearestRank
    /\ [][input' = input]_vars

C18_Witness ==
    /\ input = ReverseLadder(11)
    /\ output # None
    /\ output.p95 = Some(110)

\* ============================================================ render_target
\* a / b <= c / d for a, c >= 0 and b, d > 0, by comparing the continued
\* fractions (no product is formed, so nothing leaves the integer range).
RECURSIVE LeqFrac(_, _, _, _)
LeqFrac(a, b, c, d) ==
    LET qa == a \div b
        qc == c \div d
        ra == a % b
        rc == c % d
    IN  IF qa # qc THEN qa < qc
        ELSE IF ra = 0 THEN TRUE
        ELSE IF rc = 0 THEN FALSE
        ELSE LeqFrac(d, rc, b, ra)

\* The largest k in lo..hi-1 with k * k * other <= dim * MAX_RENDER_PIXELS,
\* given that lo satisfies it and hi does not.
RECURSIVE LargestScaled(_, _, _, _)
LargestScaled(lo, hi, dim, other) ==
    IF hi - lo <= 1 THEN lo
    ELSE LET mid == (lo + hi) \div 2
         IN  IF LeqFrac(mid, dim, MAX_RENDER_PIXELS, mid * other)
             THEN LargestScaled(mid, hi, dim, other)
             ELSE LargestScaled(lo, mid, dim, other)

\* ((dim as f64) * scale).floor() with scale = sqrt(MAX_RENDER_PIXELS / (dim * other)):
\* the value is sqrt(dim * MAX_RENDER_PIXELS / other), and its floor is the
\* largest k with k * k * other <= dim * MAX_RENDER_PIXELS.  The f64 evaluation
\* gives the same integer for every pair of RenderTargetInputs.
ScaledFloor(dim, other) == LargestScaled(0, dim, dim, other)

Max(a, b) == IF a >= b THEN a ELSE b

\* usize::MAX of the model: the machine word is scaled down to the 31 bits
\* in which the products of the model are computed; nothing in render_target
\* depends on the width of the word other than through checked_mul.
USIZE_MAX == 2147483647

\* x + y and a * b modulo USIZE_MAX + 1, without leaving the word
AddWrapping(x, y) == IF x > USIZE_MAX - y THEN (x - (USIZE_MAX - y)) - 1 ELSE x + y

RECURSIVE MulWrapping(_, _)
MulWrapping(a, b) ==
    IF b = 0 THEN 0
    ELSE LET half == MulWrapping(a, b \div 2)
             twice == AddWrapping(half, half)
         IN  IF b % 2 = 1 THEN AddWrapping(twice, a) ELSE twice

\* Mutant: the product is formed with a plain (wrapping) multiplication.
checked_mul_Wrapping(a, b) == Some(MulWrapping(a, b))

\* usize::checked_mul: None when the product is not representable
checked_mul(a, b) ==
    IF b # 0 /\ a > USIZE_MAX \div b THEN None ELSE Some(a * b)

Sized(result, render_width, render_height, pixel_count) ==
    [result |-> result, render_width |-> render_width, render_height |-> render_height,
     pixel_count |-> pixel_count]

\* Mutant: the unchanged request is returned with width and height exchanged.
render_target_SwapsDimensions(width, height) ==
    LET requested_pixels == checked_mul(width, height)
    IN  IF requested_pixels = None THEN Sized("InvalidInput", 0, 0, 0)
        ELSE IF requested_pixels[1] <= MAX_RENDER_PIXELS
        THEN Sized("Ok", height, width, requested_pixels[1])
        ELSE LET render_width  == Max(ScaledFloor(width, height), 1)
                 render_height == Max(ScaledFloor(height, width), 1)
                 pixel_count   == checked_mul(render_width, render_height)
             IN  IF pixel_count = None THEN Sized("InvalidInput", 0, 0, 0)
                 ELSE Sized("Ok", render_width, render_height,
                            Min(pixel_count[1], MAX_RENDER_PIXELS))

render_target(width, height) ==
    LET requested_pixels == checked_mul(width, height)
    IN  IF requested_pixels = None THEN Sized("InvalidInput", 0, 0, 0)
        ELSE IF requested_pixels[1] <= MAX_RENDER_PIXELS
        THEN Sized("Ok", width, height, requested_pixels[1])
        ELSE LET render_width  == Max(ScaledFloor(width, height), 1)
                 render_height == Max(ScaledFloor(height, width), 1)
                 pixel_count   == checked_mul(render_width, render_height)
             IN  IF pixel_count = None THEN Sized("InvalidInput", 0, 0, 0)
                 ELSE Sized("Ok", render_width, render_height,
                            Min(pixel_count[1], MAX_RENDER_PIXELS))

TargetWidths == {1, 2, 1000, 1200, 2000, 4000, 2000001, 2000004, 8000000}
TargetHeights == {1, 2, 250, 800, 1000, 3000}

\* pairs whose pixel count stays within the 31-bit integers of the checker
RenderTargetInputs ==
    {wh \in TargetWidths \X TargetHeights : wh[1] <= 2147483647 \div wh[2]}

RenderTargetInit ==
    /\ PipelineInit
    /\ input \in RenderTargetInputs
    /\ output = None

RenderTarget ==
    /\ output = None
    /\ output' = render_target(input[1], input[2])
    /\ UNCHANGED <<pipeline_vars, input>>

RenderTargetSpec == RenderTargetInit /\ [][RenderTarget]_vars

\* C20: for every width >= 1 and height >= 1 whose product exceeds
\* MAX_RENDER_PIXELS, render_target returns dimensions that are both >= 1 and
\* whose product is at most MAX_RENDER_PIXELS.
C20_RenderTargetWithinBudget ==
    (output # None /\ input[1] * input[2] > MAX_RENDER_PIXELS) =>
        /\ output.render_width >= 1
        /\ output.render_height >= 1
        /\ output.render_width * output.render_height <= MAX_RENDER_PIXELS

\* ================================================== PreviewRenderer::render
\* One render call, as the list of the work it performs before it returns.
\* file: whether the source path can be opened and decoded when it is read;
\* device: what the GPU does with the submitted work.
FileStates == {"readable", "missing", "corrupt"}
DeviceStates == {"ok", "map_failed", "lost"}

Rendered(result, work, width, height) ==
    [result |-> result, work |-> work, width |-> width, height |-> height]

\* Mutant: the source is opened and decoded at the requested size before the
\* dimensions are looked at.
render_DecodesFirst(r, req, file, device) ==
    IF file = "missing" THEN Rendered("Decode", <<"open_source">>, 0, 0)
    ELSE IF file = "corrupt" THEN Rendered("Decode", <<"open_source", "decode">>, 0, 0)
    ELSE IF req.target_width = 0 \/ req.target_height = 0
    THEN Rendered("InvalidInput", <<"open_source", "decode">>, 0, 0)
    ELSE LET target == render_target(req.target_width, req.target_height)
         IN  Rendered("Ok", <<"open_source", "decode", "render_target", "allocate_pixels">>,
                      target.render_width, target.render_height)

\* CpuStageRenderer::render and WgpuRenderer::render
render(r, req, file, device) ==
    IF req.target_width = 0 \/ req.target_height = 0
    THEN Rendered("InvalidInput", <<>>, 0, 0)
    ELSE LET target  == render_target(req.target_width, req.target_height)
             sized   == <<"render_target", "open_source">>
             decoded == sized \o <<"decode", "allocate_pixels">>
         IN  IF target.result # "Ok" THEN Rendered(target.result, <<"render_target">>, 0, 0)
             ELSE IF file = "missing" THEN Rendered("Decode", sized, 0, 0)
             ELSE IF file = "corrupt" THEN Rendered("Decode", sized \o <<"decode">>, 0, 0)
             ELSE IF r = "cpu"
             THEN Rendered("Ok",
                           decoded \o <<"apply_exposure_contrast", "apply_temperature_tint",
                                        "apply_highlights_shadows">>,
                           target.render_width, target.render_height)
             ELSE LET submitted == decoded \o <<"create_buffers", "dispatch_workgroups", "submit">>
                  IN  CASE device = "lost" -> Rendered("panic", submitted, 0, 0)
                        [] device = "map_failed" -> Rendered("Io", submitted \o <<"map_async">>, 0, 0)
                        [] OTHER -> Rendered("Ok", submitted \o <<"map_async", "readback">>,
                                             target.render_width, target.render_height)

RenderRequests ==
    { [image_id |-> 1, source_path |-> "ignored.jpg", target_width |-> w, target_height |-> h] :
        w \in {0, 1, 1200, 4000}, h \in {0, 1, 512, 800, 3000} }

RenderInit ==
    /\ PipelineInit
    /\ input \in [request : RenderRequests, file : FileStates, device : DeviceStates]
    /\ output = None

Render ==
    /\ output = None
    /\ output' = render(renderer, input.request, input.file, input.device)
    /\ UNCHANGED <<pipeline_vars, input>>

RenderSpec == RenderInit /\ [][Render]_vars

\* C19: for the CPU renderer and for the GPU renderer, render with
\* target_width = 0 or target_height = 0 returns InvalidInput having done no
\* work at all: no sizing, the source path not opened, nothing decoded,
\* allocated or dispatched, whatever the state of the file and of the device.
\* With both dimensions non-zero the result is never InvalidInput.
C19_ZeroDimensionsRejectedFirst ==
    output # None =>
        IF input.request.target_width = 0 \/ input.request.target_height = 0
        THEN output.result = "InvalidInput" /\ output.work = <<>>
        ELSE output.result # "InvalidInput" /\ output.work # <<>>

C19_Witness ==
    /\ output # None /\ output.result = "InvalidInput"
    /\ renderer = "gpu"
    /\ input.request.target_width = 0 /\ input.request.target_height = 512
    /\ input.file = "missing" /\ input.device = "lost"

\* C21: render_target returns a request within the budget unchanged: for
\* width >= 1 and height >= 1 with width * height <= MAX_RENDER_PIXELS the
\* result is Ok(width, height, width * height).
C21_RequestWithinBudgetUnchanged ==
    (output # None /\ input[1] >= 1 /\ input[2] >= 1
       /\ input[1] * input[2] <= MAX_RENDER_PIXELS) =>
        output = Sized("Ok", input[1], input[2], input[1] * input[2])

C21_Witness ==
    /\ input = <<2000, 1000>>
    /\ output = Sized("Ok", 2000, 1000, MAX_RENDER_PIXELS)

\* ------------------------------------------- render_target at the word limit
\* The pairs of RenderTargetInputs, a zero width, and pairs whose product is
\* not representable in the word.
WordInputs ==
    RenderTargetInputs
    \cup {<<0, 800>>, <<65536, 32768>>, <<65536, 65536>>, <<131072, 16384>>, <<46341, 46341>>}

WordInit ==
    /\ PipelineInit
    /\ input \in WordInputs
    /\ output = None

WordSpec == WordInit /\ [][RenderTarget]_vars

\* width * height is representable in the machine word
Representable(width, height) == height = 0 \/ width <= USIZE_MAX \div height

RECURSIVE GCD(_, _)
GCD(a, b) == IF b = 0 THEN a ELSE GCD(b, a % b)

Abs(x) == IF x < 0 THEN -x ELSE x

Rat(p, q) == LET g == GCD(Abs(p), q) IN <<p \div g, q \div g>>

RAdd(a, b) ==
    LET g == GCD(a[2], b[2])
    IN  Rat(a[1] * (b[2] \div g) + b[1] * (a[2] \div g), a[2] * (b[2] \div g))

RSub(a, b) == RAdd(a, <<-b[1], b[2]>>)

RMul(a, b) ==
    LET g1 == GCD(Abs(a[1]), b[2])
        g2 == GCD(Abs(b[1]), a[2])
    IN  Rat((a[1] \div g1) * (b[1] \div g2), (a[2] \div g2) * (b[2] \div g1))

RLeq(a, b) == a[1] * b[2] <= b[1] * a[2]

RMax(a, b) == IF RLeq(a, b) THEN b ELSE a

\* f32::clamp(lo, hi)
RClamp(v, lo, hi) == IF RLeq(v, lo) THEN lo ELSE IF RLeq(hi, v) THEN hi ELSE v

RFloor(v) == v[1] \div v[2]

Zero == <<0, 1>>
Full == <<255, 1>>
Half == <<255, 2>>
Tol == <<1, 1000>>

\* Mutant: the value is converted with `as u8` alone, which cuts the fraction.
RoundToU8_Truncates(v) ==
    { RFloor(RClamp(w, Zero, Full)) : w \in {RSub(v, Tol), RAdd(v, Tol)} }

\* (x * 255.0).round() as u8 for x in 0.0..1.0: nearest integer, a half away
\* from zero
RoundToU8(v) ==
    { RFloor(RAdd(RClamp(w, Zero, Full), <<1, 2>>)) : w \in {RSub(v, Tol), RAdd(v, Tol)} }

\* WGSL u32(clamp(value * 255.0, 0.0, 255.0)): the fraction is cut off
to_u8(v) ==
    { RFloor(RClamp(w, Zero, Full)) : w \in {RSub(v, Tol), RAdd(v, Tol)} }

RECURSIVE PowerOfTwo(_)
PowerOfTwo(n) == IF n = 0 THEN 1 ELSE 2 * PowerOfTwo(n - 1)

\* f32::clamp(-5.0, 5.0) of a parameter
ClampParam(x) == IF x < -5 THEN -5 ELSE IF x > 5 THEN 5 ELSE x

\* 2_f32.powf(exposure.clamp(-5.0, 5.0)) and exp2(clamp(params.exposure, -5.0, 5.0))
ExposureGain(exposure) ==
    LET e == ClampParam(exposure)
    IN  IF e >= 0 THEN <<PowerOfTwo(e), 1>> ELSE <<1, PowerOfTwo(-e)>>

\* 1.0 + contrast.clamp(-5.0, 5.0) * 0.12
ContrastFactor(contrast) == Rat(25 + 3 * ClampParam(contrast), 25)

\* x.clamp(-5.0, 5.0) * 0.035, in units of 1/255
Shift(x) == Rat(357 * ClampParam(x), 40)

\* x.clamp(-5.0, 5.0) * 0.08
Strength(x) == Rat(2 * ClampParam(x), 25)

\* ((v * exposure_gain - 0.5) * contrast_factor + 0.5).clamp(0.0, 1.0)
ExposedContrasted(v, exposure_gain, contrast_factor) ==
    RClamp(RAdd(RMul(RSub(RMul(v, exposure_gain), Half), contrast_factor), Half), Zero, Full)

\* (v + shadow_component - highlight_component).clamp(0.0, 1.0)
HighlightsShadows(v, highlights_strength, shadows_strength) ==
    LET highlight_component == RMul(RMax(RSub(v, Half), Zero), highlights_strength)
        shadow_component    == RMul(RMax(RSub(Half, v), Zero), shadows_strength)
    IN  RClamp(RSub(RAdd(v, shadow_component), highlight_component), Zero, Full)

\* ------------------------------------------------------------ the CPU path
apply_exposure_and_contrast_channel(channel, exposure_gain, contrast_factor) ==
    RoundToU8(ExposedContrasted(<<channel, 1>>, exposure_gain, contrast_factor))

apply_highlights_shadows_channel(channel, highlights_strength, shadows_strength) ==
    RoundToU8(HighlightsShadows(<<channel, 1>>, highlights_strength, shadows_strength))

\* each returns the set of pixels <<r, g, b>> the function can leave
apply_exposure_contrast(pixel, exposure, contrast) ==
    LET ch(c) == apply_exposure_and_contrast_channel(c, ExposureGain(exposure),
                                                     ContrastFactor(contrast))
    IN  ch(pixel[1]) \X ch(pixel[2]) \X ch(pixel[3])

apply_temperature_tint(pixel, temperature, tint) ==
    LET red   == RoundToU8(RClamp(RAdd(<<pixel[1], 1>>, Shift(temperature)), Zero, Full))
        green == RoundToU8(RClamp(RAdd(<<pixel[2], 1>>, Shift(tint)), Zero, Full))
        blue  == RoundToU8(RClamp(RSub(<<pixel[3], 1>>, Shift(temperature)), Zero, Full))
    IN  red \X green \X blue

apply_highlights_shadows(pixel, highlights, shadows) ==
    LET ch(c) == apply_highlights_shadows_channel(c, Strength(highlights), Strength(shadows))
    IN  ch(pixel[1]) \X ch(pixel[2]) \X ch(pixel[3])

\* CpuStageRenderer::render, lines 358-360, on one pixel
CpuTone(pixel, params) ==
    UNION { UNION { apply_highlights_shadows(p2, params.highlights, params.shadows) :
                      p2 \in apply_temperature_tint(p1, params.temperature, params.tint) } :
              p1 \in apply_exposure_contrast(pixel, params.exposure, params.contrast) }

\* ------------------------------------------------------------ the GPU kernel
\* PREVIEW_SHADER main: the channels stay f32 from the unpacking to to_u8
GpuTone(pixel, params) ==
    LET stage1(c) == ExposedContrasted(<<c, 1>>, ExposureGain(params.exposure),
                                       ContrastFactor(params.contrast))
        red2   == RClamp(RAdd(stage1(pixel[1]), Shift(params.temperature)), Zero, Full)
        blue2  == RClamp(RSub(stage1(pixel[3]), Shift(params.temperature)), Zero, Full)
        green2 == RClamp(RAdd(stage1(pixel[2]), Shift(params.tint)), Zero, Full)
        stage3(v) == HighlightsShadows(v, Strength(params.highlights), Strength(params.shadows))
    IN  to_u8(stage3(red2)) \X to_u8(stage3(green2)) \X to_u8(stage3(blue2))

\* ------------------------------------------------------------------ inputs
ParamValues == {-1, 0, 1}

EditParams ==
    [exposure : ParamValues, contrast : ParamValues, temperature : ParamValues,
     tint : ParamValues, highlights : ParamValues, shadows : ParamValues]

NeutralParams ==
    [exposure |-> 0, contrast |-> 0, temperature |-> 0, tint |-> 0, highlights |-> 0,
     shadows |-> 0]

\* the pixel of the test image, a mid grey and a mixed pixel with every
\* parameter set; every grey level with the neutral parameters
ToneInputs ==
    { [pixel |-> px, params |-> pa] :
        px \in {<<120, 80, 40>>, <<100, 100, 100>>, <<15, 128, 254>>},
        pa \in EditParams }
    \cup { [pixel |-> <<c, c, c>>, params |-> NeutralParams] : c \in 0..255 }

ToneInit ==
    /\ PipelineInit
    /\ input \in ToneInputs
    /\ output = None

Tone ==
    /\ output = None
    /\ \E cpu \in CpuTone(input.pixel, input.params), gpu \in GpuTone(input.pixel, input.params) :
          output' = [cpu |-> cpu, gpu |-> gpu]
    /\ UNCHANGED <<pipeline_vars, input>>

ToneSpec == ToneInit /\ [][Tone]_vars

\* C23: with all six parameters 0 the CPU Tone Transform returns the pixel it
\* was given, for every channel value 0..255.
C23_NeutralToneIsIdentity ==
    (output # None /\ input.params = NeutralParams) => output.cpu = input.pixel

C23_Witness ==
    /\ output # None /\ input.params = NeutralParams
    /\ input.pixel = <<120, 80, 40>> /\ output.cpu = <<120, 80, 40>>

\* C24: the GPU kernel and the CPU path return the same packed pixel for
\* every input pixel and every parameter set.
C24_GpuMatchesCpu ==
    output # None => output.gpu = output.cpu

\* ======================================= ApplicationService::submit_preview
\* f32 values of an edit parameter, as far as EditParams::validate tells them
\* apart: two finite ones, NaN and the two infinities.
FloatValues == {"0.0", "1.5", "NaN", "inf", "-inf"}

\* f32::is_finite
is_finite(x) == x \notin {"NaN", "inf", "-inf"}

ParamFields == <<"exposure", "contrast", "temperature", "tint", "highlights", "shadows">>

\* Mutant: the last field is not looked at.
validate_SkipsShadows(params) ==
    LET bad == {i \in 1..(Len(ParamFields) - 1) : ~is_finite(params[ParamFields[i]])}
    IN  IF bad = {} THEN "Ok"
        ELSE ParamFields[CHOOSE i \in bad : \A j \in bad : i <= j]

\* EditParams::validate: Ok, or NonFiniteEditParam(name) for the first field,
\* in declaration order, that is not finite
validate(params) ==
    LET bad == {i \in 1..Len(ParamFields) : ~is_finite(params[ParamFields[i]])}
    IN  IF bad = {} THEN "Ok"
        ELSE ParamFields[CHOOSE i \in bad : \A j \in bad : i <= j]

\* EditParams::default()
DefaultParams ==
    [exposure |-> "0.0", contrast |-> "0.0", temperature |-> "0.0", tint |-> "0.0",
     highlights |-> "0.0", shadows |-> "0.0"]

\* the default parameters, the default with one field replaced, and a set
\* with two fields that are not finite
CommandParams ==
    {DefaultParams}
    \cup { [DefaultParams EXCEPT ![ParamFields[i]] = v] :
              i \in 1..Len(ParamFields), v \in FloatValues }
    \cup { [DefaultParams EXCEPT !.tint = "NaN", !.shadows = "-inf"] }

SubmitPreviewCommands ==
    { [request |-> [image_id |-> 1, source_path |-> "preview.jpg", params |-> pa,
                    target_width |-> 1200, target_height |-> 800]] :
        pa \in CommandParams }

\* command.request.params.validate()?; self.preview.submit_preview(command.request)
\* up to the first step of the pipeline's submit_preview (the fetch_add).
\* input records the command of the call.
ServiceSubmitPreview ==
    /\ caller_pc = "idle"
    /\ \E command \in SubmitPreviewCommands :
          /\ input' = command
          /\ IF validate(command.request.params) # "Ok"
             THEN /\ ret' = Ret("submit_preview", "Err", None, None)
                  /\ UNCHANGED <<next_sequence, request, sequence, caller_pc, hist>>
             ELSE /\ next_sequence < LiveSubmits
                  /\ request' = command.request
                  /\ hist' = [hist EXCEPT !.arg = command.request,
                                          !.entered_poisoned = MetricsPoisoned]
                  /\ sequence' = next_sequence + 1
                  /\ next_sequence' = next_sequence + 1
                  /\ caller_pc' = "submit_store"
                  /\ UNCHANGED ret
    /\ UNCHANGED <<renderer, output, lock_holder, latest_sequence, job_channel, result_channel,
                   metrics, newest, dropped, worker_vars>>

ServiceNext == ServiceSubmitPreview \/ SubmitStep

ServiceSpec == Init /\ [][ServiceNext]_vars

NonFinite(params) ==
    \E f \in DOMAIN params : params[f] \in {"NaN", "inf", "-inf"}

\* C25: ApplicationService::submit_preview validates before forwarding.  A
\* command with a NaN or infinite parameter returns an error and leaves the
\* pipeline untouched: no sequence number consumed, submitted_jobs unchanged,
\* nothing enqueued, the pipeline's submit_preview not entered.  Any other
\* command enters the pipeline's submit_preview with the request of the
\* command.  Hence no request with a non-finite parameter is ever enqueued.
C25_ServiceValidatesBeforeForwarding ==
    /\ [][(caller_pc = "idle" /\ input' # None) =>
             IF NonFinite(input'.request.params)
             THEN /\ ret' = Ret("submit_preview", "Err", None, None)
                  /\ UNCHANGED <<next_sequence, latest_sequence, metrics, job_channel,
                                 caller_pc, request, sequence, hist>>
             ELSE /\ caller_pc' = "submit_store"
                  /\ request' = input'.request
                  /\ hist'.arg = input'.request
                  /\ next_sequence' = next_sequence + 1
         ]_vars
    /\ [](\A i \in DOMAIN job_channel : ~NonFinite(job_channel[i].request.params))

C25_Witness ==
    /\ input # None /\ input.request.params.shadows = "-inf"
    /\ input.request.params.tint = "0.0"
    /\ caller_pc = "idle" /\ ret = Ret("submit_preview", "Err", None, None)
    /\ next_sequence = 1 /\ Len(job_channel) = 1 /\ metrics.submitted_jobs = 1

\* ------------------------------------------------------------------- C26
\* C26: publish guard.  With one submitting thread a job that reaches the
\* post-render check has job.sequence <= latest_sequence.  The check sends the
\* worker on to the result channel only when it read latest_sequence =
\* job.sequence; when it read latest_sequence > job.sequence the job is
\* discarded: canceled_jobs grows by one, completed_jobs and the latency window
\* are untouched and nothing is put on the result channel.  A frame is put on
\* the result channel only by the send that follows a passed check, and it
\* carries the sequence of the job that passed.
C26_PublishGuard ==
    /\ [][(worker_pc = "postcheck" /\ worker_pc' # "postcheck") =>
            IF latest_sequence > job.sequence
            THEN /\ worker_pc' = "recv"
                 /\ metrics' = [metrics EXCEPT !.canceled_jobs = @ + 1]
                 /\ result_channel' = result_channel
                 /\ hist'.published = hist.published
            ELSE /\ latest_sequence = job.sequence
                 /\ worker_pc' = "send"
                 /\ job' = job
                 /\ metrics' = metrics]_vars
    /\ [][(worker_pc' = "send" /\ worker_pc # "send") => worker_pc = "postcheck"]_vars
    /\ [][worker_pc = "send" => job' = job]_vars
    /\ [][Len(result_channel') > Len(result_channel) =>
            /\ worker_pc = "send"
            /\ result_channel' = Append(result_channel, Frame(job, elapsed))
            /\ result_channel'[Len(result_channel')].sequence = job.sequence]_vars

\* the first job was rendered alone, a second submit returned before its
\* post-render check, and the check discarded it: one cancellation, nothing
\* published or completed, the second job still waiting in the job channel
C26_Witness ==
    /\ hist.first_render_at = 1
    /\ hist.first_check_at = 2
    /\ worker_pc = "recv"
    /\ Len(job_channel) = 1
    /\ metrics.canceled_jobs = 1
    /\ metrics.completed_jobs = 0
    /\ metrics.render_samples_ms = <<>>
    /\ hist.published = <<>>
    /\ result_channel = <<>>

\* ------------------------------------------------------------------- C27
\* C27: pre-render staleness check.  The worker enters renderer.render only
\* from the check that follows the drain loop, for the candidate that check
\* looked at, and only when the check read latest_sequence <= job.sequence.
\* A candidate with job.sequence < latest_sequence is discarded without being
\* rendered: canceled_jobs grows by exactly one, nothing else in the metrics
\* changes, no render is recorded, and the worker is back at the blocking
\* receive.
C27_PreRenderCheck ==
    /\ [][(worker_pc = "precheck" /\ worker_pc' # "precheck") =>
            IF job.sequence < latest_sequence
            THEN /\ worker_pc' = "recv"
                 /\ metrics' = [metrics EXCEPT !.canceled_jobs = @ + 1]
                 /\ hist' = hist
                 /\ result_channel' = result_channel
                 /\ elapsed' = elapsed
            ELSE /\ latest_sequence <= job.sequence
                 /\ worker_pc' = "render"
                 /\ job' = job
                 /\ metrics' = metrics]_vars
    /\ [][(worker_pc' = "render" /\ worker_pc # "render") => worker_pc = "precheck"]_vars
    /\ [][worker_pc = "render" => job' = job]_vars
    /\ [][(hist'.first_render_at # hist.first_render_at
            \/ hist'.render_failed # hist.render_failed
            \/ hist'.buffered_renders # hist.buffered_renders) => worker_pc = "render"]_vars

\* the first job was the candidate, a second submit stored latest_sequence = 2
\* before the check, and the check discarded the candidate: one cancellation,
\* no render finished or failed, the worker is at the blocking receive
C27_Witness ==
    /\ job # NoJob
    /\ job.sequence = 1
    /\ latest_sequence = 2
    /\ worker_pc = "recv"
    /\ metrics.canceled_jobs = 1
    /\ hist.first_render_at = -1
    /\ hist.render_failed = {}
    /\ hist.first_check_at = -1

\* ------------------------------------------------------------------- C28
\* C28: drain-coalesce.  A wake-up of the worker receives k >= 1 jobs: the one
\* the blocking receive returned and every job the drain loop found after it
\* (those waiting at the wake-up and those that arrived before the loop saw the
\* channel empty).  They are taken from the head of the job channel, oldest
\* first; each one taken by the loop replaces an older candidate, which is
\* counted canceled and was not rendered; the loop ends only on an empty
\* channel, where canceled_jobs has grown by exactly k-1 and the candidate is
\* the job received last.  No wake-up calls renderer.render more than once.
C28_DrainCoalesce ==
    /\ [](worker_pc \in {"drain", "precheck"} =>
            /\ hist.wake_taken >= 1
            /\ metrics.canceled_jobs = hist.wake_canceled + hist.wake_taken - 1
            /\ hist.wake_renders = 0)
    /\ [](hist.wake_renders <= 1)
    /\ [][(worker_pc \in {"recv", "drain"} /\ hist'.wake_taken # hist.wake_taken) =>
            /\ job_channel # <<>>
            /\ job' = Head(job_channel)
            /\ job_channel' = Tail(job_channel)
            /\ worker_pc' = "drain"
            /\ worker_pc = "drain" =>
                  /\ job'.sequence > job.sequence
                  /\ hist'.wake_taken = hist.wake_taken + 1
                  /\ metrics' = [metrics EXCEPT !.canceled_jobs = @ + 1]]_vars
    /\ [][(worker_pc = "drain" /\ worker_pc' # "drain") =>
            /\ job_channel = <<>>
            /\ worker_pc' = "precheck"
            /\ job' = job
            /\ metrics' = metrics]_vars
    /\ [][job' # job => (worker_pc \in {"recv", "drain"} /\ job' = Head(job_channel))]_vars

\* a wake-up that received three jobs: the first two were canceled by the
\* drain loop and the third is the candidate at the staleness check
C28_Witness ==
    /\ worker_pc = "precheck"
    /\ hist.wake_taken = 3
    /\ hist.wake_canceled = 0
    /\ metrics.canceled_jobs = 2
    /\ job.sequence = 3
    /\ hist.wake_renders = 0

\* ------------------------------------------------------------------- C29
\* jobs the worker has accounted for
Counted == metrics.completed_jobs + metrics.canceled_jobs

\* the job channel is empty, the worker is blocked in the receive and the
\* metrics lock is not poisoned
Quiescent == job_channel = <<>> /\ worker_pc = "recv" /\ ~MetricsPoisoned

\* C29 as stated: completed_jobs + canceled_jobs <= submitted_jobs in every
\* reachable state, and completed_jobs + canceled_jobs = submitted_jobs in
\* every state where the job channel is empty, the worker is blocked in the
\* receive and the metrics lock is not poisoned.
C29_QuiescentMeansCounted ==
    /\ Counted <= metrics.submitted_jobs
    /\ Quiescent => Counted = metrics.submitted_jobs

\* C29: job accounting.  completed_jobs + canceled_jobs <= submitted_jobs in
\* every reachable state.  In every state where the job channel is empty, the
\* worker is blocked in the receive, the metrics lock is not poisoned and no
\* submit_preview call stands between its submitted_jobs increment and its
\* send, completed_jobs + canceled_jobs = submitted_jobs; in the state left
\* out the one counted job that is not yet enqueued is the whole difference.
C29_JobAccounting ==
    /\ Counted <= metrics.submitted_jobs
    /\ (Quiescent /\ caller_pc # "submit_send") => Counted = metrics.submitted_jobs
    /\ (Quiescent /\ caller_pc = "submit_send") => Counted + 1 = metrics.submitted_jobs

\* three jobs submitted and all accounted for, at least one completed and at
\* least one canceled, nothing in progress
C29_Witness ==
    /\ Quiescent
    /\ caller_pc = "idle"
    /\ metrics.submitted_jobs = 3
    /\ metrics.completed_jobs >= 1
    /\ metrics.canceled_jobs >= 1
    /\ Counted = 3

\* ------------------------------------------------------------------- C30
\* frames the worker has sent on the result channel
FramesSent == Len(hist.published)

\* frames returned by polls, frames counted dropped, frames still waiting
FramesAccounted == Len(hist.delivered) + metrics.dropped_frames + Len(result_channel)

\* try_receive_preview returns in this step.
PollReturns ==
    \/ caller_pc = "poll_finish" /\ caller_pc' = "idle"
    \/ caller_pc = "idle" /\ caller_pc' = "idle" /\ result_channel = <<>>
       /\ ret'.op = "try_receive_preview" /\ ret'.frame = None /\ worker_vars' = worker_vars
       /\ metrics' = metrics

WarmStarts == {0, METRIC_WINDOW_SIZE - 1}

WarmRequest == [image_id |-> 1, source_path |-> "preview.jpg", target_width |-> 1200, target_height |-> 800]

WarmInit ==
    /\ input \in WarmStarts
    /\ output = None
    /\ renderer \in {"gpu", "cpu"}
    /\ lock_holder = [metrics |-> "none", result_rx |-> "none", metrics_poisoned |-> FALSE]
    /\ next_sequence = input
    /\ latest_sequence = input
    /\ job_channel = <<>>
    /\ result_channel = <<>>
    /\ caller_pc = "idle"
    /\ worker_pc = "recv"
    /\ dropped = 0
    /\ sequence = input
    /\ IF input = 0
       THEN /\ metrics = MetricsDefault
            /\ request = NoRequest
            /\ newest = NoFrame
            /\ ret = [op |-> "new", kind |-> "Ok", frame |-> None, snap |-> None]
            /\ job = NoJob
            /\ elapsed = 0
            /\ hist = HistInit
       ELSE /\ metrics = [submitted_jobs |-> input, completed_jobs |-> input, canceled_jobs |-> 0,
                          dropped_frames |-> 0, last_render_time_ms |-> Some(1),
                          render_samples_ms |-> [i \in 1..input |-> 1]]
            /\ request = WarmRequest
            /\ job = [sequence |-> input, request |-> WarmRequest]
            /\ elapsed = 1
            /\ newest = Frame(job, 1)
            /\ ret = Ret("try_receive_preview", "Ok", Some(newest), None)
            /\ hist = [HistInit EXCEPT !.arg = WarmRequest,
                                       !.published = [i \in 1..input |-> i],
                                       !.delivered = [i \in 1..input |-> i],
                                       !.submits_done = input,
                                       !.first_render_at = 1,
                                       !.first_check_at = 1,
                                       !.wake_taken = 1,
                                       !.wake_canceled = 0,
                                       !.wake_renders = 1]

\* submit_preview's fetch_add, for the two submissions that follow the warm start
WarmSubmit ==
    /\ caller_pc = "idle"
    /\ next_sequence < input + 2
    /\ request' = WarmRequest
    /\ hist' = [hist EXCEPT !.arg = WarmRequest, !.entered_poisoned = MetricsPoisoned]
    /\ sequence' = next_sequence + 1
    /\ next_sequence' = next_sequence + 1
    /\ caller_pc' = "submit_store"
    /\ UNCHANGED <<renderer, input, output, lock_holder, latest_sequence, job_channel, result_channel, metrics,
                   newest, dropped, ret, worker_vars>>

WarmNext == WarmSubmit \/ SubmitStep \/ PollStep \/ Metrics \/ WorkerStep

WarmSpec == WarmInit /\ [][WarmNext]_vars

\* completed_jobs = 0 iff last_render_time_ms is None iff p95_render_time_ms is None
SnapshotConsistent(s) ==
    /\ (s.completed_jobs = 0) <=> (s.last_render_time_ms = None)
    /\ (s.last_render_time_ms = None) <=> (s.p95_render_time_ms = None)

\* C31: snapshot consistency.  Every PreviewMetrics returned by metrics() has
\* completed_jobs = 0 exactly when last_render_time_ms is None and exactly
\* when p95_render_time_ms is None, and it is the snapshot of the MetricsState
\* of that moment; the latency window of the MetricsState always holds
\* min(completed_jobs, 64) samples.
C31_SnapshotConsistent ==
    /\ []((ret.op = "metrics" /\ ret.kind = "Ok") => SnapshotConsistent(ret.snap[1]))
    /\ [](Len(metrics.render_samples_ms) = Min(metrics.completed_jobs, METRIC_WINDOW_SIZE))
    /\ [][(ret'.op = "metrics" /\ ret'.kind = "Ok" /\ ret' # ret) =>
            /\ ret'.snap = Some(snapshot(metrics))
            /\ metrics' = metrics]_vars

\* a snapshot taken after the 65th completion: the window holds 64 samples
C31_Witness ==
    /\ ret.op = "metrics"
    /\ ret.kind = "Ok"
    /\ ret.snap[1].completed_jobs = METRIC_WINDOW_SIZE + 1
    /\ ret.snap[1].p95_render_time_ms # None
    /\ metrics.completed_jobs = METRIC_WINDOW_SIZE + 1
    /\ Len(metrics.render_samples_ms) = METRIC_WINDOW_SIZE

\* ======================================================= two submitting threads
\* BackgroundPreviewPipeline is shared by reference between threads (its fields
\* are atomics, mutexes and a channel sender), so a second thread can be inside
\* submit_preview while the first one is.  The second thread's position, its
\* local `sequence` and its request are kept in `output`; the first thread is
\* the caller of Spec, which also polls.
RaceSubmits == 2

SecondIdle == [pc |-> "idle", sequence |-> 0, request |-> NoRequest, kind |-> "none"]

RaceInit == PipelineInit /\ input = None /\ output = SecondIdle

FirstFetchAdd == next_sequence < RaceSubmits /\ SubmitFetchAdd

\* let sequence = self.next_sequence.fetch_add(1, SeqCst) + 1;
SecondFetchAdd ==
    /\ output.pc = "idle"
    /\ FacadeAlive
    /\ next_sequence < RaceSubmits
    /\ \E req \in PreviewRequests :
          output' = [pc |-> "submit_store", sequence |-> next_sequence + 1, request |-> req,
                     kind |-> output.kind]
    /\ next_sequence' = next_sequence + 1
    /\ UNCHANGED <<renderer, input, lock_holder, latest_sequence, job_channel, result_channel, metrics,
                   caller_vars, worker_vars, hist>>

\* self.latest_sequence.store(sequence, SeqCst);
SecondStoreLatest ==
    /\ output.pc = "submit_store"
    /\ latest_sequence' = output.sequence
    /\ output' = [output EXCEPT !.pc = "submit_count"]
    /\ UNCHANGED <<renderer, input, lock_holder, next_sequence, job_channel, result_channel, metrics,
                   caller_vars, worker_vars, hist>>

\* { let mut metrics = self.metrics.lock()?; metrics.submitted_jobs += 1; }
SecondCount ==
    /\ output.pc = "submit_count"
    /\ MetricsLockFree
    /\ IF MetricsPoisoned
       THEN /\ output' = [output EXCEPT !.pc = "idle", !.kind = "Err"]
            /\ UNCHANGED metrics
       ELSE /\ metrics' = [metrics EXCEPT !.submitted_jobs = @ + 1]
            /\ output' = [output EXCEPT !.pc = "submit_send"]
    /\ UNCHANGED <<renderer, input, lock_holder, next_sequence, latest_sequence, job_channel, result_channel,
                   caller_vars, worker_vars, hist>>

\* self.submit_tx.send(ScheduledJob { sequence, request }).map_err(..)
SecondSend ==
    /\ output.pc = "submit_send"
    /\ IF WorkerAlive
       THEN /\ job_channel' = Send(job_channel, [sequence |-> output.sequence, request |-> output.request])
            /\ output' = [output EXCEPT !.pc = "idle", !.kind = "Ok"]
            /\ hist' = [hist EXCEPT !.submits_done = @ + 1]
       ELSE /\ output' = [output EXCEPT !.pc = "idle", !.kind = "Err"]
            /\ UNCHANGED <<job_channel, hist>>
    /\ UNCHANGED <<renderer, input, lock_holder, next_sequence, latest_sequence, result_channel, metrics,
                   caller_vars, worker_vars>>

SecondStep == SecondStoreLatest \/ SecondCount \/ SecondSend

RaceNext == FirstFetchAdd \/ SubmitStep \/ SecondFetchAdd \/ SecondStep \/ PollStep \/ WorkerStep

RaceSpec == RaceInit /\ [][RaceNext]_vars

\* no submit_preview call is in progress on either thread
AllSubmitsReturned == caller_pc \notin {"submit_store", "submit_count", "submit_send"} /\ output.pc = "idle"

\* C32: with two threads calling submit_preview concurrently, latest_sequence
\* never decreases; once all calls have returned it equals the highest
\* sequence number assigned; and the sequence numbers of delivered frames are
\* non-decreasing.
C32_LatestIsHighestAssigned ==
    /\ [][latest_sequence' >= latest_sequence]_vars
    /\ [](AllSubmitsReturned => latest_sequence = next_sequence)
    /\ [](\A i \in 1..(Len(hist.delivered) - 1) : hist.delivered[i] <= hist.delivered[i + 1])

\* ------------------------------------------------------------------- C33
\* submit_preview returns an error in this step.
SubmitFails ==
    /\ caller_pc \in {"submit_count", "submit_send"}
    /\ caller_pc' = "idle"
    /\ ret'.op = "submit_preview"
    /\ ret'.kind = "Err"

\* C33: a failed submit_preview has no effect.  When submit_preview returns an
\* error, next_sequence and latest_sequence are what they were before the call
\* (one less than the sequence the call took), and submitted_jobs counts only
\* the jobs that were enqueued (the calls that returned Ok).
C33_FailedSubmitHasNoEffect ==
    /\ [][SubmitFails => /\ next_sequence' = sequence - 1
                         /\ latest_sequence' = sequence - 1]_vars
    /\ [](caller_pc = "idle" => metrics.submitted_jobs = hist.submits_done)

\* =========================================================== RenderedPreview
\* The shape of what a successful render returns, for a readable source and a
\* working device.  decode_source_pixels allocates target_width * target_height
\* pixels for the size render_target chose; the CPU renderer returns that
\* buffer; the GPU renderer sizes its output and readback buffers and its
\* dispatch with the pixel_count render_target returned, and returns the
\* readback buffer as pixels.
Shape(result, width, height, pixels, gpu_pixels) ==
    [result |-> result, width |-> width, height |-> height, pixels |-> pixels,
     gpu_pixels |-> gpu_pixels]

\* let mut pixels = vec![0_u32; target_width * target_height];
decoded_len(target_width, target_height) == target_width * target_height

RenderedPreview(r, width, height) ==
    IF width = 0 \/ height = 0 THEN Shape("InvalidInput", 0, 0, 0, 0)
    ELSE LET target == render_target(width, height)
         IN  IF target.result # "Ok" THEN Shape(target.result, 0, 0, 0, 0)
             ELSE IF r = "cpu"
             THEN Shape("Ok", target.render_width, target.render_height,
                        decoded_len(target.render_width, target.render_height), 0)
             ELSE Shape("Ok", target.render_width, target.render_height,
                        target.pixel_count, target.pixel_count)

ShapeInit ==
    /\ PipelineInit
    /\ input \in RenderTargetInputs
    /\ output = None

RenderShape ==
    /\ output = None
    /\ output' = RenderedPreview(renderer, input[1], input[2])
    /\ UNCHANGED <<pipeline_vars, input>>

ShapeSpec == ShapeInit /\ [][RenderShape]_vars

\* C34: frame shape.  Every RenderedPreview returned Ok by either renderer,
\* for non-zero target dimensions, has width >= 1, height >= 1 and
\* pixels.len() = width * height, and on the GPU the pixel count used for the
\* buffers and the dispatch is render_width * render_height.
C34_FrameShape ==
    (output # None /\ output.result = "Ok") =>
        /\ output.width >= 1
        /\ output.height >= 1
        /\ output.pixels = output.width * output.height
        /\ renderer = "gpu" => output.gpu_pixels = output.width * output.height

\* ========================================================= DebouncedAutosave
\* drivers/src/ui.rs.  The struct is [debounce_ms, dirty_since_ms]; its
\* callers pass the milliseconds elapsed on a monotonic clock (Instant).
saturating_sub(a, b) == IF a >= b THEN a - b ELSE 0

new(debounce_ms) == [debounce_ms |-> debounce_ms, dirty_since_ms |-> None]

\* Mutant: a mark_dirty on an already dirty state keeps the older time.
mark_dirty_KeepsFirst(self, now_ms) ==
    IF self.dirty_since_ms = None THEN [self EXCEPT !.dirty_since_ms = Some(now_ms)] ELSE self

mark_dirty(self, now_ms) == [self EXCEPT !.dirty_since_ms = Some(now_ms)]

should_flush(self, now_ms) ==
    IF self.dirty_since_ms # None
    THEN saturating_sub(now_ms, self.dirty_since_ms[1]) >= self.debounce_ms
    ELSE FALSE

clear(self) == [self EXCEPT !.dirty_since_ms = None]

is_dirty(self) == self.dirty_since_ms # None

\* readings of the clock, in milliseconds, and debounce intervals
ClockTimes == {0, 100, 250, 399, 400, 549, 550, 700}
DebounceTimes == {0, 300}

\* output: the struct, the clock, what the last should_flush and is_dirty
\* calls returned, and the history of the calls (whether mark_dirty was
\* called since the last clear, and the time passed to the last mark_dirty)
AutosaveInit ==
    /\ PipelineInit
    /\ input \in DebounceTimes
    /\ output = [autosave |-> new(input), now |-> 0, flush |-> None, dirty |-> None,
                 marked |-> FALSE, marked_at |-> 0]

ClockAdvances ==
    /\ \E t \in ClockTimes :
          /\ t > output.now
          /\ output' = [output EXCEPT !.now = t, !.flush = None, !.dirty = None]
    /\ UNCHANGED <<pipeline_vars, input>>

MarkDirty ==
    /\ output' = [output EXCEPT !.autosave = mark_dirty(@, output.now),
                                !.marked = TRUE, !.marked_at = output.now,
                                !.flush = None, !.dirty = None]
    /\ UNCHANGED <<pipeline_vars, input>>

ShouldFlush ==
    /\ output' = [output EXCEPT !.flush = Some(should_flush(output.autosave, output.now)),
                                !.dirty = Some(is_dirty(output.autosave))]
    /\ UNCHANGED <<pipeline_vars, input>>

Clear ==
    /\ output' = [output EXCEPT !.autosave = clear(@), !.marked = FALSE,
                                !.flush = None, !.dirty = None]
    /\ UNCHANGED <<pipeline_vars, input>>

AutosaveNext == ClockAdvances \/ MarkDirty \/ ShouldFlush \/ Clear

AutosaveSpec == AutosaveInit /\ [][AutosaveNext]_vars

\* C36: should_flush(now) is true exactly when mark_dirty has been called
\* since the last clear and now minus the time of the most recent mark_dirty
\* is at least debounce_ms; is_dirty is true exactly when mark_dirty has been
\* called since the last clear, so should_flush is false whenever is_dirty is
\* false.
C36_FlushAfterDebounce ==
    output.flush # None =>
        /\ output.flush[1] = (output.marked /\ output.now - output.marked_at >= input)
        /\ output.dirty[1] = output.marked
        /\ ~output.dirty[1] => ~output.flush[1]

\* dirty at 100, marked again at 250, 300 ms debounce: not yet due at 549
C36_Witness ==
    /\ input = 300
    /\ output.marked /\ output.marked_at = 250
    /\ output.now = 549
    /\ output.flush = Some(FALSE)
    /\ output.dirty = Some(TRUE)

\* ============================================================ launch_window
\* The editor loop of drivers/src/ui.rs.  input is the catalog (the image ids
\* list_images returned) and the image_id argument; output is the state of
\* the function: its position in the loop body, params (the number of the
\* edit that produced them, 0 for what is stored), active_image_id,
\* active_index, autosave, the last clock reading, the edits the service
\* holds (set_edit writes, show_edit reads), the service calls made by the
\* last step, and the image that was active at the last change of params.
\* Every service call can fail, which returns Err from the function.
MaxEdits == 2

AUTOSAVE_DEBOUNCE_MS == 300

Catalogs == {<<>>, <<1>>, <<1, 2>>, <<1, 2, 3>>}

EditorInputs ==
    {[catalog |-> c, image_id |-> i] :
        c \in Catalogs, i \in {None, Some(1), Some(2)}}

EditorClock == {0, 100, 399, 400, 700}

Ids(catalog) == {catalog[k] : k \in DOMAIN catalog}

\* position of the id in the catalog, 0-based
IndexOf(catalog, id) ==
    LET found == {k \in DOMAIN catalog : catalog[k] = id}
    IN  IF found = {} THEN None ELSE Some((CHOOSE k \in found : \A j \in found : k <= j) - 1)

EditorInit ==
    /\ PipelineInit
    /\ input \in EditorInputs
    /\ output = [pc |-> "keys", result |-> "none", params |-> 0, edits |-> 0,
                 active_image_id |-> input.image_id,
                 active_index |-> IF input.image_id = None THEN None
                                  ELSE IndexOf(input.catalog, input.image_id[1]),
                 autosave |-> new(AUTOSAVE_DEBOUNCE_MS), now |-> 0,
                 store |-> [i \in 1..3 |-> 0], calls |-> <<>>, changed_for |-> None]

Returned(o, result, calls) == [o EXCEPT !.pc = "returned", !.result = result, !.calls = calls]

\* Mutant: an image switch clears the dirty state without persisting.
switch_image_ClearsOnly(o, catalog, go_next, fail) ==
    LET len     == Len(catalog)
        current == IF o.active_index = None THEN 0 ELSE o.active_index[1]
        next    == IF go_next THEN (current + 1) % len ELSE (current + len - 1) % len
        next_id == catalog[next + 1]
        cleared == [o EXCEPT !.autosave = clear(@)]
        moved   == [cleared EXCEPT !.active_index = Some(next), !.active_image_id = Some(next_id)]
        shown   == <<"show_edit", next_id>>
    IN  IF fail = "show_edit" THEN Returned(moved, "Err", <<shown>>)
        ELSE LET loaded == [moved EXCEPT !.params = moved.store[next_id]]
                 submit == <<"submit_preview", next_id, loaded.params>>
             IN  IF fail = "submit_preview"
                 THEN Returned(loaded, "Err", <<shown, submit>>)
                 ELSE [loaded EXCEPT !.pc = "mouse", !.calls = <<shown, submit>>]

\* lines 145-174: the body of `if !catalog_images.is_empty() && (go_prev || go_next)`
switch_image(o, catalog, go_next, fail) ==
    LET len     == Len(catalog)
        current == IF o.active_index = None THEN 0 ELSE o.active_index[1]
        next    == IF go_next THEN (current + 1) % len ELSE (current + len - 1) % len
        next_id == catalog[next + 1]
        persist == is_dirty(o.autosave) /\ o.active_image_id # None
        saved   == IF persist THEN <<<<"set_edit", o.active_image_id[1], o.params>>>> ELSE <<>>
    IN  IF persist /\ fail = "set_edit" THEN Returned(o, "Err", saved)
        ELSE LET stored  == IF persist
                            THEN [o EXCEPT !.store[o.active_image_id[1]] = o.params]
                            ELSE o
                 cleared == IF is_dirty(o.autosave) THEN [stored EXCEPT !.autosave = clear(@)]
                            ELSE stored
                 moved   == [cleared EXCEPT !.active_index = Some(next),
                                            !.active_image_id = Some(next_id)]
                 shown   == saved \o <<<<"show_edit", next_id>>>>
             IN  IF fail = "show_edit" THEN Returned(moved, "Err", shown)
                 ELSE LET loaded == [moved EXCEPT !.params = moved.store[next_id]]
                          submit == shown \o <<<<"submit_preview", next_id, loaded.params>>>>
                      IN  IF fail = "submit_preview" THEN Returned(loaded, "Err", submit)
                          ELSE [loaded EXCEPT !.pc = "mouse", !.calls = submit]

Failures == {"none", "set_edit", "show_edit", "submit_preview"}

\* lines 143-174: the key handling at the top of an iteration of the loop
EditorKeys ==
    /\ output.pc = "keys"
    /\ \E go \in {"none", "prev", "next"}, fail \in Failures :
          output' = IF input.catalog # <<>> /\ go # "none"
                    THEN switch_image(output, input.catalog, go = "next", fail)
                    ELSE [output EXCEPT !.pc = "mouse", !.calls = <<>>]
    /\ UNCHANGED <<pipeline_vars, input>>

\* lines 176-196: a slider drag that changes a parameter
EditorMouse ==
    /\ output.pc = "mouse"
    /\ \E changed \in BOOLEAN, fail \in {"none", "submit_preview"}, now_ms \in EditorClock :
          /\ now_ms >= output.now
          /\ changed => output.edits < MaxEdits
          /\ output' =
                IF ~changed THEN [output EXCEPT !.pc = "flush", !.calls = <<>>]
                ELSE LET edited == [output EXCEPT !.params = output.edits + 1,
                                                  !.edits = @ + 1,
                                                  !.now = now_ms,
                                                  !.autosave = mark_dirty(@, now_ms),
                                                  !.changed_for = output.active_image_id]
                     IN  IF edited.active_image_id = None
                         THEN [edited EXCEPT !.pc = "flush", !.calls = <<>>]
                         ELSE LET submit == <<<<"submit_preview", edited.active_image_id[1],
                                                edited.params>>>>
                              IN  IF fail = "submit_preview" THEN Returned(edited, "Err", submit)
                                  ELSE [edited EXCEPT !.pc = "flush", !.calls = submit]
    /\ UNCHANGED <<pipeline_vars, input>>

\* lines 201-208: the debounced flush
EditorFlush ==
    /\ output.pc = "flush"
    /\ \E fail \in {"none", "set_edit"}, now_ms \in EditorClock :
          /\ now_ms >= output.now
          /\ LET read == [output EXCEPT !.now = now_ms]
             IN  output' =
                   IF ~should_flush(read.autosave, now_ms)
                   THEN [read EXCEPT !.pc = "poll", !.calls = <<>>]
                   ELSE IF read.active_image_id = None
                   THEN [read EXCEPT !.pc = "poll", !.calls = <<>>, !.autosave = clear(@)]
                   ELSE LET id    == read.active_image_id[1]
                            saved == <<<<"set_edit", id, read.params>>>>
                        IN  IF fail = "set_edit" THEN Returned(read, "Err", saved)
                            ELSE [read EXCEPT !.pc = "poll", !.calls = saved,
                                              !.store[id] = read.params,
                                              !.autosave = clear(@)]
    /\ UNCHANGED <<pipeline_vars, input>>

\* lines 210-257: drawing, poll_preview, preview_metrics, update_with_buffer
EditorPoll ==
    /\ output.pc = "poll"
    /\ \E fail \in {"none", "poll_preview"} :
          output' = IF fail = "poll_preview"
                    THEN Returned(output, "Err", <<<<"poll_preview">>>>)
                    ELSE [output EXCEPT !.pc = "keys", !.calls = <<<<"poll_preview">>>>]
    /\ UNCHANGED <<pipeline_vars, input>>

\* lines 143 and 259-265: the window is closed or Escape is down
EditorExit ==
    /\ output.pc = "keys"
    /\ \E fail \in {"none", "set_edit"} :
          output' =
            IF is_dirty(output.autosave) /\ output.active_image_id # None
            THEN LET id    == output.active_image_id[1]
                     saved == <<<<"set_edit", id, output.params>>>>
                 IN  IF fail = "set_edit" THEN Returned(output, "Err", saved)
                     ELSE Returned([output EXCEPT !.store[id] = output.params], "Ok", saved)
            ELSE Returned(output, "Ok", <<>>)
    /\ UNCHANGED <<pipeline_vars, input>>

EditorNext == EditorKeys \/ EditorMouse \/ EditorFlush \/ EditorPoll \/ EditorExit

EditorSpec == EditorInit /\ [][EditorNext]_vars

\* the first service call of the step persisted the params of before the step
\* for the image that was active when they were changed
PersistsFirst ==
    /\ output'.calls # <<>>
    /\ output'.calls[1] = <<"set_edit", output.changed_for[1], output.params>>
    /\ output'.result # "Err" => output'.store[output.changed_for[1]] = output.params

\* the edit is dirty and was made while an image was active
DirtyEdit == is_dirty(output.autosave) /\ output.changed_for # None

SubmitReturnsNow ==
    /\ caller_pc \in {"submit_count", "submit_send"}
    /\ caller_pc' = "idle"

\* C35: worker death is observable.  Once the worker thread has terminated
\* while the facade is alive it stays terminated and sends no more frames;
\* every submit_preview that returns from then on returns an error and
\* enqueues nothing; a try_receive_preview that finds frames still buffered
\* in the result channel takes all of them and returns the newest, and one
\* that finds the channel empty returns an error, never Ok(None).
C35_WorkerDeathObservable ==
    /\ [][~WorkerAlive => (/\ ~WorkerAlive'
                           /\ Len(result_channel') <= Len(result_channel)
                           /\ hist'.published = hist.published)]_vars
    /\ [][(~WorkerAlive /\ SubmitReturnsNow) =>
            (/\ ret' = Ret("submit_preview", "Err", None, None)
             /\ job_channel' = job_channel)]_vars
    /\ [][(~WorkerAlive /\ PollReturns) =>
            IF caller_pc = "poll_finish"
            THEN /\ ret' = Ret("try_receive_preview", "Ok", Some(newest), None)
                 /\ \E i \in 1..Len(hist.published) : hist.published[i] = newest.sequence
            ELSE ret' = Ret("try_receive_preview", "Err", None, None)]_vars
    /\ [][(~WorkerAlive /\ caller_pc = "poll_drain" /\ caller_pc' # "poll_drain") =>
            (result_channel = <<>> /\ result_channel' = <<>>)]_vars

\* the worker panicked in the renderer after it had published a frame: the
\* frame was delivered, the next poll returned the disconnect error
C35_Witness ==
    /\ worker_pc = "panicked"
    /\ caller_pc = "idle"
    /\ ret = Ret("try_receive_preview", "Err", None, None)
    /\ result_channel = <<>>
    /\ Len(hist.published) >= 1
    /\ hist.delivered = hist.published
    /\ metrics.submitted_jobs >= 2

\* ====================================================== decode_source_pixels
\* The nearest-neighbour resample of decode_source_pixels, for a decoded
\* source of src_width x src_height pixels and a target_width x target_height
\* destination: which source pixel each destination pixel reads and which
\* entry of the destination buffer it writes.
MaxDim == 4

Dimensions == 1..MaxDim

\* Mutant: the source index is rounded up.
source_index_RoundsUp(d, src, dst) == (d * src + dst - 1) \div dst

\* let src_y = y * src_height / target_height;  let src_x = x * src_width / target_width;
source_index(d, src, dst) == (d * src) \div dst

\* the loop nest of lines 560-570: one record per iteration
Resampled(src_width, src_height, target_width, target_height) ==
    [len    |-> decoded_len(target_width, target_height),
     writes |-> { [x     |-> x, y |-> y,
                   src_x |-> source_index(x, src_width, target_width),
                   src_y |-> source_index(y, src_height, target_height),
                   index |-> y * target_width + x] :
                    x \in 0..(target_width - 1), y \in 0..(target_height - 1) }]

ResampleInit ==
    /\ PipelineInit
    /\ input \in [src_width : Dimensions, src_height : Dimensions,
                   target_width : Dimensions, target_height : Dimensions]
    /\ output = None

Resample ==
    /\ output = None
    /\ output' = Resampled(input.src_width, input.src_height, input.target_width, input.target_height)
    /\ UNCHANGED <<pipeline_vars, input>>

ResampleSpec == ResampleInit /\ [][Resample]_vars

\* C38: the resample stays in bounds.  Every destination pixel reads a source
\* pixel with 0 <= src_x < src_width and 0 <= src_y < src_height, at
\* floor(d * src / dst) on each axis; the destination buffer has
\* target_width * target_height entries and every one of them is written by
\* exactly one iteration.
C38_ResampleInBounds ==
    output # None =>
        /\ output.len = input.target_width * input.target_height
        /\ \A w \in output.writes :
              /\ 0 <= w.src_x /\ w.src_x < input.src_width
              /\ 0 <= w.src_y /\ w.src_y < input.src_height
              /\ w.src_x * input.target_width <= w.x * input.src_width
              /\ w.x * input.src_width < (w.src_x + 1) * input.target_width
              /\ w.src_y * input.target_height <= w.y * input.src_height
              /\ w.y * input.src_height < (w.src_y + 1) * input.target_height
              /\ 0 <= w.index /\ w.index < output.len
        /\ \A i \in 0..(output.len - 1) :
              Cardinality({w \in output.writes : w.index = i}) = 1

\* a 3 x 2 source enlarged to 4 x 3: the last destination pixel reads the
\* last source pixel
C38_Witness ==
    /\ output # None
    /\ input = [src_width |-> 3, src_height |-> 2, target_width |-> 4, target_height |-> 3]
    /\ output.len = 12
    /\ [x |-> 3, y |-> 2, src_x |-> 2, src_y |-> 1, index |-> 11] \in output.writes

====
